---- MODULE Spec2Model ----
(***************************************************************************)
(* A model of pyrkbun: the client configuration resolver                   *)
(* (PyrkbunClient.build), the request executor (PyrkbunClient.api_post),   *)
(* the record name normalizer (Dns._normalize_name) and the Dns feature    *)
(* operations built on them.                                               *)
(*                                                                         *)
(* Python values are tagged records [ty, s] (s is the value's repr) in the *)
(* configuration part, so that None, '' and 0 stay distinct and Python's   *)
(* truthiness can be computed.  Names and zones are sequences of           *)
(* one-character strings, so that endswith and slicing are computed.       *)
(***************************************************************************)
EXTENDS Integers, Sequences, FiniteSets, TLC

VARIABLES
    environ,     \* os.environ: environment variable name -> string
    files,       \* the file system: path -> [kind, data]
    buildCall,   \* the arguments of the last PyrkbunClient.build call
    buildRet,    \* its outcome: a client or the exception raised
    heap,        \* the caller-owned payload objects: object id -> dict
    postCall,    \* the arguments of the last api_post call
    postRet,     \* its outcome: the result returned or the exception raised
    wire,        \* the requests sent on the network during the last call
    normIn,      \* the input of _normalize_name: [name, domain]
    normOut,     \* its results: of the name, then of each result fed back
    dnsCall,     \* the arguments of the last Dns operation
    dnsRet,      \* its outcome: the value returned or the exception raised
    calls,       \* the api_post calls in progress: thread -> position and locals
    upstream     \* the records the upstream stores for the zone

vars == <<environ, files, buildCall, buildRet, heap, postCall, postRet, wire,
          normIn, normOut, dnsCall, dnsRet, calls, upstream>>

buildVars == <<environ, files, buildCall, buildRet>>
postVars == <<heap, postCall, postRet, wire, calls>>
normVars == <<normIn, normOut>>
dnsVars == <<dnsCall, dnsRet, upstream>>

-----------------------------------------------------------------------------
(* Python values and dicts                                                 *)

None == [ty |-> "none", s |-> "None"]
StrV(x) == [ty |-> "str", s |-> x]
IntV(x) == [ty |-> "int", s |-> x]
FloatV(x) == [ty |-> "float", s |-> x]
BoolV(b) == [ty |-> "bool", s |-> IF b THEN "True" ELSE "False"]

\* Python truthiness: bool(v), `if v:`, `not v`
Truthy(v) ==
    CASE v.ty = "none" -> FALSE
      [] v.ty = "str" -> v.s # ""
      [] v.ty = "int" -> v.s # "0"
      [] v.ty = "float" -> v.s # "0.0"
      [] v.ty = "bool" -> v.s = "True"

\* the empty dict
EmptyDict == [k \in {} |-> None]

\* dict.update: every key of e is set in d, the other keys of d are kept
DictUpdate(d, e) ==
    [k \in DOMAIN d \cup DOMAIN e |-> IF k \in DOMAIN e THEN e[k] ELSE d[k]]

\* dict.pop(k, None) for its effect on the dict
DictPop(d, k) == [x \in DOMAIN d \ {k} |-> d[x]]

\* an exception that left the call
Raise(type, msg) == [kind |-> "raise", type |-> type, msg |-> msg]

NoCall == [op |-> "none"]
NoRet == [kind |-> "none"]

IsRaise(v) == "kind" \in DOMAIN v /\ v.kind = "raise"

-----------------------------------------------------------------------------
(* PyrkbunClient.build: the configuration resolver                         *)

Keys == {"api_key", "api_secret_key", "force_v4", "rate_limit", "retries",
         "timeout", "http2"}

\* the order in which _load_config_from_env_vars reads the variables
KeyOrder == <<"api_key", "api_secret_key", "force_v4", "rate_limit", "retries",
              "timeout", "http2">>

EnvName(k) ==
    CASE k = "api_key" -> "PYRK_API_KEY"
      [] k = "api_secret_key" -> "PYRK_API_SECRET_KEY"
      [] k = "force_v4" -> "PYRK_FORCE_V4"
      [] k = "rate_limit" -> "PYRK_RATE"
      [] k = "retries" -> "PYRK_RETRIES"
      [] k = "timeout" -> "PYRK_TIMEOUT"
      [] k = "http2" -> "PYRK_HTTP2"

ConfigFileVar == "PYRK_CONFIG_FILE"
EnvFilePath == "/etc/pyrkbun.json"
NamedFilePath == "./pyrkbun.json"

\* os.getenv: None when the variable is not set
getenv(name) == IF name \in DOMAIN environ THEN StrV(environ[name]) ELSE None

\* int(x) of a string: the integer, or ValueError
PyInt(x) ==
    IF x \in {"0", "1", "2", "20"} THEN IntV(x)
    ELSE Raise("ValueError", "invalid literal for int()")

\* float(x) of a string: the float, or ValueError
PyFloat(x) ==
    CASE x = "3" -> FloatV("3.0")
      [] x = "0" -> FloatV("0.0")
      [] x = "0.5" -> FloatV("0.5")
      [] OTHER -> Raise("ValueError", "could not convert string to float")

\* the converter _load_config_from_env_vars gives _add_env_var for each key
Converter(k, x) ==
    CASE k \in {"api_key", "api_secret_key"} -> StrV(x)
      [] k = "force_v4" -> BoolV(x # "")
      [] k = "rate_limit" -> PyFloat(x)
      [] k \in {"retries", "timeout"} -> PyInt(x)
      [] k = "http2" ->
           LET i == PyInt(x) IN IF IsRaise(i) THEN i ELSE BoolV(i.s # "0")

_get_default_config ==
    [k \in Keys |->
        CASE k \in {"api_key", "api_secret_key"} -> None
          [] k = "force_v4" -> BoolV(FALSE)
          [] k = "rate_limit" -> FloatV("0.0")
          [] k = "retries" -> IntV("0")
          [] k = "timeout" -> IntV("15")
          [] k = "http2" -> BoolV(FALSE)]

\* json.load of the file, then the keys of key_mapping the file holds; the
\* http2 value is turned into a bool when it is an int (a bool is an int)
_load_config_file(file_path) ==
    LET f == files[file_path] IN
    IF f.kind # "json" THEN EmptyDict
    ELSE [k \in DOMAIN f.data \cap Keys |->
            IF k = "http2" /\ f.data[k].ty \in {"int", "bool"}
            THEN BoolV(Truthy(f.data[k]))
            ELSE f.data[k]]

_load_config_from_env_file ==
    LET config_file_path == getenv(ConfigFileVar) IN
    IF Truthy(config_file_path) THEN _load_config_file(config_file_path.s)
    ELSE EmptyDict

\* _add_env_var for every key: the variables that are set and not empty
EnvVarKeys == {k \in Keys : Truthy(getenv(EnvName(k)))}

\* the first conversion that raises, in the order of the reads, or NoRet
EnvVarError ==
    LET bad == {i \in 1..Len(KeyOrder) :
                  /\ KeyOrder[i] \in EnvVarKeys
                  /\ IsRaise(Converter(KeyOrder[i], getenv(EnvName(KeyOrder[i])).s))}
    IN IF bad = {} THEN NoRet
       ELSE LET i == CHOOSE i \in bad : \A j \in bad : i <= j
            IN Converter(KeyOrder[i], getenv(EnvName(KeyOrder[i])).s)

_load_config_from_env_vars ==
    [k \in EnvVarKeys |-> Converter(k, getenv(EnvName(k)).s)]

\* only the arguments that are not None
_load_config_from_args(args) ==
    [k \in {x \in Keys : args[x] # None} |-> args[k]]

\* (mutant) the environment variables applied before the file PYRK_CONFIG_FILE names
MergeConfigEnvFileLast(args, file_name, read_env) ==
    LET c0 == _get_default_config
        c1 == IF read_env THEN DictUpdate(c0, _load_config_from_env_vars) ELSE c0
        c2 == IF read_env THEN DictUpdate(c1, _load_config_from_env_file) ELSE c1
        c3 == IF Truthy(file_name) THEN DictUpdate(c2, _load_config_file(file_name.s))
              ELSE c2
    IN DictUpdate(c3, _load_config_from_args(args))

\* the merge of build, lowest priority first
MergeConfig(args, file_name, read_env) ==
    LET c0 == _get_default_config
        c1 == IF read_env THEN DictUpdate(c0, _load_config_from_env_file) ELSE c0
        c2 == IF read_env THEN DictUpdate(c1, _load_config_from_env_vars) ELSE c1
        c3 == IF Truthy(file_name) THEN DictUpdate(c2, _load_config_file(file_name.s))
              ELSE c2
    IN DictUpdate(c3, _load_config_from_args(args))

\* (mutant) only the absence of both credentials is refused
CredentialsBothMissing(config) ==
    ~Truthy(config["api_key"]) /\ ~Truthy(config["api_secret_key"])

\* build's validation of the required fields
CredentialsMissing(config) ==
    ~Truthy(config["api_key"]) \/ ~Truthy(config["api_secret_key"])

BaseUrlV64 == "https://api.porkbun.com/api/json/v3"
BaseUrlV4 == "https://api-ipv4.porkbun.com/api/json/v3"

\* PyrkbunClient.__init__
NewClient(config) ==
    [kind |-> "client",
     config |-> config,
     base_url |-> IF Truthy(config["force_v4"]) THEN BaseUrlV4 ELSE BaseUrlV64]

\* the outcome of PyrkbunClient.build
BuildOutcome(args, file_name, read_env) ==
    IF read_env /\ IsRaise(EnvVarError) THEN EnvVarError
    ELSE LET config == MergeConfig(args, file_name, read_env) IN
         IF CredentialsMissing(config)
         THEN Raise("ValueError", "api_key and api_secret_key are required")
         ELSE NewClient(config)

\* ---- the environments and the arguments build is checked on ----

\* how many configuration keys the environment (the variables and the two
\* files) defines, and how many explicit arguments a call gives
MaxEnvKeys == 1
MaxArgKeys == 3

\* the dicts that give at most max keys a value of V(k)
DictsOver(V, max) ==
    LET all == UNION {V[k] : k \in Keys} IN
    UNION {{f \in [D -> all] : \A k \in D : f[k] \in V[k]} :
             D \in {ks \in SUBSET Keys : Cardinality(ks) <= max}}

\* strings an environment variable may hold ('' is set but empty)
EnvStrings == [k \in Keys |->
    CASE k = "api_key" -> {"", "ENVKEY"}
      [] k = "api_secret_key" -> {"ENVSECRET"}
      [] k = "force_v4" -> {"0"}
      [] k = "rate_limit" -> {"3"}
      [] k = "retries" -> {"2", "two"}
      [] k = "timeout" -> {"20"}
      [] k = "http2" -> {"1"}]

\* JSON values of the file named by file_name
FileJson == [k \in Keys |->
    CASE k = "api_key" -> {StrV("FILEKEY")}
      [] k = "api_secret_key" -> {StrV("FILESECRET"), None}
      [] k = "force_v4" -> {BoolV(TRUE)}
      [] k = "rate_limit" -> {FloatV("4.0")}
      [] k = "retries" -> {IntV("4")}
      [] k = "timeout" -> {IntV("30")}
      [] k = "http2" -> {IntV("0")}]

\* JSON values of the file named by PYRK_CONFIG_FILE
EnvFileJson == [k \in Keys |->
    CASE k = "api_key" -> {StrV("ENVFILEKEY")}
      [] k = "api_secret_key" -> {StrV("ENVFILESECRET")}
      [] k = "force_v4" -> {BoolV(FALSE)}
      [] k = "rate_limit" -> {FloatV("1.5")}
      [] k = "retries" -> {IntV("1")}
      [] k = "timeout" -> {IntV("40")}
      [] k = "http2" -> {IntV("1")}]

\* explicit arguments of build
ArgValues == [k \in Keys |->
    CASE k = "api_key" -> {StrV("ARGKEY"), StrV("")}
      [] k = "api_secret_key" -> {StrV("ARGSECRET")}
      [] k = "force_v4" -> {BoolV(FALSE)}
      [] k = "rate_limit" -> {FloatV("5.0")}
      [] k = "retries" -> {IntV("5")}
      [] k = "timeout" -> {IntV("25")}
      [] k = "http2" -> {BoolV(TRUE)}]

Missing == [kind |-> "missing", data |-> EmptyDict]
Invalid == [kind |-> "invalid", data |-> EmptyDict]
Json(d) == [kind |-> "json", data |-> d]

FileStates(V) == {Missing, Invalid} \cup {Json(d) : d \in DictsOver(V, MaxEnvKeys)}

\* the environment a run starts in: the variables set, and the two files
InitBuildEnv ==
    \E ev \in DictsOver(EnvStrings, MaxEnvKeys), named \in FileStates(FileJson),
       envfile \in FileStates(EnvFileJson), set \in BOOLEAN :
      /\ set \/ envfile = Missing
      /\ Cardinality(DOMAIN ev \cup DOMAIN named.data \cup DOMAIN envfile.data)
            <= MaxEnvKeys
      /\ environ =
           [n \in {EnvName(k) : k \in DOMAIN ev}
                    \cup (IF set THEN {ConfigFileVar} ELSE {}) |->
              IF n = ConfigFileVar THEN EnvFilePath
              ELSE ev[CHOOSE k \in DOMAIN ev : EnvName(k) = n]]
      /\ files = [p \in {EnvFilePath, NamedFilePath} |->
                    IF p = EnvFilePath THEN envfile ELSE named]

\* the explicit arguments: at most MaxArgKeys of them are given
ArgDicts == DictsOver(ArgValues, MaxArgKeys)

Build(args, file_name, read_env) ==
    /\ buildCall' = [op |-> "build", args |-> args, file_name |-> file_name,
                     read_env |-> read_env]
    /\ buildRet' = BuildOutcome(args, file_name, read_env)
    /\ UNCHANGED <<environ, files>>

\* build reads the environment and writes nothing, and keeps nothing between
\* calls: a run is followed from its environment through one call
BuildStep ==
    /\ buildCall = NoCall
    /\ \E given \in ArgDicts, file_name \in {None, StrV(NamedFilePath)},
          read_env \in BOOLEAN :
         Build([k \in Keys |-> IF k \in DOMAIN given THEN given[k] ELSE None],
               file_name, read_env)

\* ---- the specification of the configuration resolver ----

IdleBuild == /\ environ = EmptyDict /\ files = EmptyDict
             /\ buildCall = NoCall /\ buildRet = NoRet
IdlePost == /\ heap = EmptyDict /\ postCall = NoCall /\ postRet = NoRet
            /\ wire = <<>> /\ calls = <<>>
IdleNorm == normIn = NoCall /\ normOut = <<>>
IdleDns == dnsCall = NoCall /\ dnsRet = NoRet /\ upstream = <<>>

InitBuild ==
    /\ InitBuildEnv
    /\ buildCall = NoCall /\ buildRet = NoRet
    /\ IdlePost /\ IdleNorm /\ IdleDns

NextBuild == BuildStep /\ UNCHANGED <<postVars, normVars, dnsVars>>

SpecBuild == InitBuild /\ [][NextBuild]_vars

\* ---- the constructor called directly ----

\* the arguments of PyrkbunClient(...): the two credentials, which have no
\* default, and the tunables at their defaults or set
InitArgs ==
    [api_key : {None, StrV(""), StrV("pk1_KEY")},
     api_secret_key : {None, StrV(""), StrV("sk1_SECRET")},
     force_v4 : {BoolV(FALSE), BoolV(TRUE)},
     rate_limit : {FloatV("0.0"), FloatV("1.5")},
     retries : {IntV("0"), IntV("2")},
     timeout : {IntV("15")},
     http2 : {BoolV(FALSE), BoolV(TRUE)}]

\* PyrkbunClient(api_key, api_secret_key, ...): the arguments are stored
Construct ==
    /\ buildCall = NoCall
    /\ \E args \in InitArgs :
         /\ buildCall' = [op |-> "__init__", args |-> args]
         /\ buildRet' = NewClient(args)
    /\ UNCHANGED <<environ, files>>

\* the two routes to a client, in an environment without variables or files
InitConstruct ==
    /\ environ = EmptyDict
    /\ files = [p \in {EnvFilePath, NamedFilePath} |-> Missing]
    /\ buildCall = NoCall /\ buildRet = NoRet
    /\ IdlePost /\ IdleNorm /\ IdleDns

NextConstruct == (Construct \/ BuildStep) /\ UNCHANGED <<postVars, normVars, dnsVars>>

SpecConstruct == InitConstruct /\ [][NextConstruct]_vars

-----------------------------------------------------------------------------
(* PyrkbunClient.api_post: the request executor                            *)

\* const.VALID_HTTP_RESPONSE
VALID_HTTP_RESPONSE == {200}

\* decoded JSON values: a mapping (key -> value) or a list
DictV(d) == [ty |-> "dict", items |-> d]
ListV(l) == [ty |-> "list", items |-> l]
\* a response body that is no JSON document
TextBody(x) == [ty |-> "text", s |-> x]

\* response.json(): the decoded value, or ValueError for a body that is no JSON
JsonLoads(content) ==
    IF content.ty = "text" THEN [ok |-> FALSE, value |-> None]
    ELSE [ok |-> TRUE, value |-> content]

\* what api_post ends with
Return(v) == [kind |-> "return", value |-> v]
ApiError(http_status, status, message) ==
    [kind |-> "raise", type |-> "ApiError", http_status |-> http_status,
     status |-> status, message |-> message]
ApiFailure(http_status, message) ==
    [kind |-> "raise", type |-> "ApiFailure", http_status |-> http_status,
     message |-> message]

\* what client.post ends with: a response, or an exception of the transport
Response(status_code, content) ==
    [kind |-> "response", status_code |-> status_code, content |-> content]
ConnectError == [kind |-> "ConnectError"]
ReadTimeout == [kind |-> "ReadTimeout"]

\* the credential fields api_post adds to the payload
Credentials(client) ==
    [k \in {"secretapikey", "apikey"} |->
        IF k = "apikey" THEN client.config["api_key"]
        ELSE client.config["api_secret_key"]]

\* (mutant) the credentials are added whether or not the call is authenticated
InjectAlways(client, payload, auth) ==
    DictUpdate(payload, Credentials(client))

\* payload.update({...}) when the call is authenticated
Inject(client, payload, auth) ==
    IF auth THEN DictUpdate(payload, Credentials(client)) ELSE payload

\* (mutant) only the key is removed, the secret stays
ScrubKeyOnly(payload) == DictPop(payload, "apikey")

\* payload.pop('apikey', None); payload.pop('secretapikey', None)
Scrub(payload) == DictPop(DictPop(payload, "apikey"), "secretapikey")

\* (mutant) the endpoint follows the per-call argument alone
RequestPerCallOnly(client, path, body, force_v4, retries) ==
    [base_url |-> IF force_v4 THEN BaseUrlV4 ELSE BaseUrlV64,
     path |-> path,
     json |-> body,
     retries |-> IF retries # None THEN retries ELSE client.config["retries"]]

\* the request client.post sends
Request(client, path, body, force_v4, retries) ==
    [base_url |-> IF force_v4 THEN BaseUrlV4 ELSE client.base_url,
     path |-> path,
     json |-> body,
     retries |-> IF retries # None THEN retries ELSE client.config["retries"]]

\* raise ApiError(**result): the keywords must be exactly the parameters
RaiseApiError(result) ==
    IF DOMAIN result = {"http_status", "status", "message"}
    THEN ApiError(result["http_status"], result["status"], result["message"])
    ELSE Raise("TypeError", "ApiError.__init__() got unexpected or missing keyword arguments")

\* the end of api_post once the body is decoded
Classify(status_code, result) ==
    IF status_code \in VALID_HTTP_RESPONSE THEN Return(result)
    ELSE IF result.ty # "dict"
         THEN Raise("AttributeError", "object has no attribute 'update'")
         ELSE RaiseApiError(DictUpdate(result.items,
                                       [k \in {"http_status"} |-> status_code]))

\* (mutant) the status is looked at before the body is decoded
ExchangeStatusFirst(client, path, sent, force_v4, retries, t) ==
    LET req == Request(client, path, sent, force_v4, retries) IN
    IF t.kind = "ConnectError"
    THEN [ret |-> Raise("ConnectError", ""), payload |-> sent, wire |-> <<>>]
    ELSE IF t.kind = "ReadTimeout"
    THEN [ret |-> Raise("ReadTimeout", ""), payload |-> sent, wire |-> <<req>>]
    ELSE IF t.status_code \notin VALID_HTTP_RESPONSE
    THEN [ret |-> ApiError(t.status_code, StrV("ERROR"), StrV("")),
          payload |-> Scrub(sent), wire |-> <<req>>]
    ELSE LET j == JsonLoads(t.content) IN
         IF ~j.ok
         THEN [ret |-> ApiFailure(t.status_code, t.content), payload |-> sent,
               wire |-> <<req>>]
         ELSE [ret |-> Return(j.value), payload |-> Scrub(sent), wire |-> <<req>>]

\* (mutant) a response with a status that is not 200 is answered by sending the
\* request once more when retries are configured
ExchangeResendsOnError(client, path, sent, force_v4, retries, t) ==
    LET req == Request(client, path, sent, force_v4, retries) IN
    IF t.kind = "ConnectError"
    THEN [ret |-> Raise("ConnectError", ""), payload |-> sent, wire |-> <<>>]
    ELSE IF t.kind = "ReadTimeout"
    THEN [ret |-> Raise("ReadTimeout", ""), payload |-> sent, wire |-> <<req>>]
    ELSE LET j == JsonLoads(t.content)
             again == t.status_code \notin VALID_HTTP_RESPONSE /\ Truthy(req.retries)
             reqs == IF again THEN <<req, req>> ELSE <<req>>
         IN IF ~j.ok
            THEN [ret |-> ApiFailure(t.status_code, t.content), payload |-> sent,
                  wire |-> reqs]
            ELSE [ret |-> Classify(t.status_code, j.value), payload |-> Scrub(sent),
                  wire |-> reqs]

\* api_post from the sending on: [ret: how the call ends, payload: the payload
\* object afterwards, wire: the requests that reached the network]
Exchange(client, path, sent, force_v4, retries, t) ==
    LET req == Request(client, path, sent, force_v4, retries) IN
    IF t.kind = "ConnectError"
    THEN [ret |-> Raise("ConnectError", ""), payload |-> sent, wire |-> <<>>]
    ELSE IF t.kind = "ReadTimeout"
    THEN [ret |-> Raise("ReadTimeout", ""), payload |-> sent, wire |-> <<req>>]
    ELSE LET j == JsonLoads(t.content) IN
         IF ~j.ok
         THEN [ret |-> ApiFailure(t.status_code, t.content), payload |-> sent,
               wire |-> <<req>>]
         ELSE [ret |-> Classify(t.status_code, j.value), payload |-> Scrub(sent),
               wire |-> <<req>>]

\* the whole of api_post on the payload dict `payload`
api_post(client, path, payload, auth, force_v4, retries, t) ==
    Exchange(client, path, Inject(client, payload, auth), force_v4, retries, t)

\* a call by a caller that owns the payload object `ref` (None: no payload given)
ApiPost(path, ref, auth, force_v4, retries, t) ==
    LET before == IF ref = None THEN EmptyDict ELSE heap[ref.s]
        r == api_post(buildRet, path, before, auth, force_v4, retries, t)
    IN /\ postCall' = [op |-> "api_post", path |-> path, payload |-> ref,
                        before |-> before, auth |-> auth, force_v4 |-> force_v4,
                        retries |-> retries, transport |-> t]
       /\ postRet' = r.ret
       /\ wire' = r.wire
       /\ heap' = IF ref = None THEN heap ELSE [heap EXCEPT ![ref.s] = r.payload]
       /\ UNCHANGED <<environ, files, buildCall, buildRet, calls>>

\* dict.get(key) with the default None
DictGet(d, k) == IF k \in DOMAIN d THEN d[k] ELSE None

\* the RuntimeError of a response whose status is not SUCCESS
StatusError(items) ==
    Raise("RuntimeError",
          <<"API request failed with status",
            IF "status" \in DOMAIN items THEN items["status"] ELSE StrV("UNKNOWN"),
            IF "message" \in DOMAIN items THEN items["message"] ELSE StrV("")>>)

\* (mutant) only the status ERROR is refused; a response without a status passes
StatusCheckErrorOnly(response) ==
    IF response.ty # "dict"
    THEN Raise("AttributeError", "object has no attribute 'get'")
    ELSE IF DictGet(response.items, "status") = StrV("ERROR")
    THEN StatusError(response.items)
    ELSE NoRet

\* response.get('status') != 'SUCCESS', on whatever api_post returned:
\* NoRet when the response passes
StatusCheck(response) ==
    IF response.ty # "dict"
    THEN Raise("AttributeError", "object has no attribute 'get'")
    ELSE IF DictGet(response.items, "status") # StrV("SUCCESS")
    THEN StatusError(response.items)
    ELSE NoRet

\* (mutant) ping without the credentials
PingUnauthenticated(client, ipv4, t) ==
    api_post(client, "/ping", EmptyDict, FALSE, ipv4, None, t)

\* PyrkbunClient.ping: api_post on '/ping' with auth at its default, True
ping(client, ipv4, t) ==
    api_post(client, "/ping", EmptyDict, TRUE, ipv4, None, t)

\* the TldPricing fields without a default
TldRequired == {"registration", "renewal", "transfer"}

PricingResponse(pricing) == [ty |-> "PricingResponse", pricing |-> pricing]

\* dacite.from_dict(PricingResponse, response): the key pricing is required, and
\* so are registration, renewal and transfer of every TLD; coupons is optional
from_dict(response) ==
    IF "pricing" \notin DOMAIN response.items
    THEN Raise("MissingValueError", "pricing")
    ELSE LET pricing == response.items["pricing"].items IN
         IF \E tld \in DOMAIN pricing :
               ~(TldRequired \subseteq DOMAIN pricing[tld].items)
         THEN Raise("MissingValueError", "registration, renewal or transfer")
         ELSE Return(PricingResponse(
                [tld \in DOMAIN pricing |->
                   [k \in TldRequired \cup {"coupons"} |->
                      DictGet(pricing[tld].items, k)]]))

\* Pricing.get: [ret, wire]
Pricing_get(client, t) ==
    LET r == api_post(client, "/pricing/get", EmptyDict, FALSE, FALSE, None, t) IN
    IF IsRaise(r.ret) THEN [ret |-> r.ret, wire |-> r.wire]
    ELSE IF IsRaise(StatusCheck(r.ret.value))
    THEN [ret |-> StatusCheck(r.ret.value), wire |-> r.wire]
    ELSE [ret |-> from_dict(r.ret.value), wire |-> r.wire]

\* ---- the clients, payloads and responses api_post is checked on ----

\* upstream bodies: the documented success and error shapes, error bodies with a
\* field missing or added, a JSON list, and bodies that are no JSON
Bodies ==
    {DictV([k \in {"status"} |-> StrV("SUCCESS")]),
     DictV([k \in {"status", "message"} |->
              IF k = "status" THEN StrV("ERROR") ELSE StrV("Invalid record ID.")]),
     DictV([k \in {"status"} |-> StrV("ERROR")]),
     DictV([k \in {"message"} |-> StrV("Domain is not opted in to API access.")]),
     DictV([k \in {"status", "message", "code"} |->
              IF k = "status" THEN StrV("ERROR") ELSE StrV("Invalid domain.")]),
     ListV(<<>>),
     TextBody("<html>502 Bad Gateway</html>"),
     TextBody("")}

StatusCodes == {200, 500}

TransportOutcomes ==
    {ConnectError, ReadTimeout}
        \cup {Response(c, b) : c \in StatusCodes, b \in Bodies}

\* payloads a caller builds: none of its own fields, or the fields of a record
CallerPayloads ==
    {EmptyDict,
     [k \in {"type", "content", "name"} |->
        CASE k = "type" -> StrV("A")
          [] k = "content" -> StrV("198.51.100.45")
          [] k = "name" -> StrV("www")]}

PostPaths == {"/dns/create/example.com"}

\* clients made by the constructor, with and without force_v4
PostClients ==
    {NewClient([_get_default_config EXCEPT
                   !["api_key"] = StrV("pk1_KEY"),
                   !["api_secret_key"] = StrV("sk1_SECRET"),
                   !["force_v4"] = BoolV(v4)]) : v4 \in BOOLEAN}

ApiPostStep ==
    \E path \in PostPaths, ref \in {None, StrV("p1")}, auth \in BOOLEAN,
       force_v4 \in BOOLEAN, retries \in {None, IntV("2")},
       t \in TransportOutcomes :
      ApiPost(path, ref, auth, force_v4, retries, t)

\* a call of a wrapper of api_post that passes no payload of its own
PostCall(op, path, auth, force_v4, t, r) ==
    /\ postCall' = [op |-> op, path |-> path, payload |-> None,
                    before |-> EmptyDict, auth |-> auth, force_v4 |-> force_v4,
                    retries |-> None, transport |-> t]
    /\ postRet' = r.ret
    /\ wire' = r.wire
    /\ UNCHANGED <<environ, files, buildCall, buildRet, heap, calls>>

Ping ==
    \E ipv4 \in BOOLEAN, t \in TransportOutcomes :
      PostCall("ping", "/ping", TRUE, ipv4, t, ping(buildRet, ipv4, t))

\* a price list: one TLD, with or without coupons, or with a field missing
TldPrices(keys) ==
    DictV([k \in keys |-> IF k = "coupons" THEN ListV(<<>>) ELSE StrV("9.68")])

PricingBodies ==
    {DictV([k \in {"status", "pricing"} |->
              IF k = "status" THEN StrV("SUCCESS")
              ELSE DictV([tld \in {"com"} |-> TldPrices(keys)])]) :
        keys \in {TldRequired, TldRequired \cup {"coupons"},
                  {"registration", "transfer"}}}

PricingOutcomes ==
    TransportOutcomes \cup {Response(200, b) : b \in PricingBodies}

PricingGet ==
    \E t \in PricingOutcomes :
      PostCall("Pricing.get", "/pricing/get", FALSE, FALSE, t,
               Pricing_get(buildRet, t))

InitPost ==
    /\ environ = EmptyDict /\ files = EmptyDict
    /\ buildCall = [op |-> "__init__"]
    /\ buildRet \in PostClients
    /\ heap \in {[o \in {"p1"} |-> d] : d \in CallerPayloads}
    /\ postCall = NoCall /\ postRet = NoRet /\ wire = <<>> /\ calls = <<>>
    /\ IdleNorm /\ IdleDns

NextPost == (ApiPostStep \/ Ping \/ PricingGet) /\ UNCHANGED <<normVars, dnsVars>>

SpecPost == InitPost /\ [][NextPost]_vars

-----------------------------------------------------------------------------
(* Dns._normalize_name: the record name normalizer                         *)
(* A name or a zone is a sequence of one-character strings.                *)

\* str.endswith
EndsWith(x, suffix) ==
    /\ Len(x) >= Len(suffix)
    /\ SubSeq(x, Len(x) - Len(suffix) + 1, Len(x)) = suffix

\* x[:-n] for n >= 1
DropLast(x, n) == SubSeq(x, 1, Len(x) - n)

Dot == <<".">>

\* (mutant) the suffix is cut without its separating dot
NormalizeKeepsSeparator(name, domain) ==
    IF name = <<>> THEN <<>>
    ELSE LET stripped == IF EndsWith(name, Dot) THEN DropLast(name, 1) ELSE name
             domain_suffix == Dot \o domain
         IN IF EndsWith(stripped, domain_suffix)
            THEN DropLast(stripped, Len(domain))
            ELSE IF stripped = domain THEN <<>> ELSE stripped

\* (mutant) the trailing dot of a fully qualified name is kept
NormalizeKeepsTrailingDot(name, domain) ==
    IF name = <<>> THEN <<>>
    ELSE LET domain_suffix == Dot \o domain
         IN IF EndsWith(name, domain_suffix)
            THEN DropLast(name, Len(domain_suffix))
            ELSE IF name = domain THEN <<>> ELSE name

_normalize_name(name, domain) ==
    IF name = <<>> THEN <<>>
    ELSE LET stripped == IF EndsWith(name, Dot) THEN DropLast(name, 1) ELSE name
             domain_suffix == Dot \o domain
         IN IF EndsWith(stripped, domain_suffix)
            THEN DropLast(stripped, Len(domain_suffix))
            ELSE IF stripped = domain THEN <<>> ELSE stripped

\* ---- the names and zones the normalizer is checked on ----

\* the longest name, and how often a result is fed back to the normalizer
MaxNameLen == 7
MaxApplications == 2

NameChars == {"a", ".", "z"}

\* the zones z and a.z
ShortZones == {<<"z">>, <<"a", ".", "z">>}

\* every name of at most MaxNameLen characters
ShortNames == UNION {[1..n -> NameChars] : n \in 0..MaxNameLen}

example_com == <<"e", "x", "a", "m", "p", "l", "e", ".", "c", "o", "m">>
www == <<"w", "w", "w">>
web == <<"w", "e", "b">>
www_example_com_dot == <<"w", "w", "w", ".", "e", "x", "a", "m", "p", "l", "e", ".", "c", "o", "m", ".">>
web_example_com == <<"w", "e", "b", ".", "e", "x", "a", "m", "p", "l", "e", ".", "c", "o", "m">>

\* the names of the unit tests and of the documentation, in zone example.com
DocumentedNames == {www_example_com_dot, web_example_com, example_com, www}

\* one application of the normalizer, to the name or to the last result
Normalize ==
    /\ Len(normOut) < MaxApplications
    /\ normOut' = Append(normOut,
                         _normalize_name(IF normOut = <<>> THEN normIn.name
                                         ELSE normOut[Len(normOut)],
                                         normIn.domain))
    /\ UNCHANGED normIn

InitNorm ==
    /\ \/ \E name \in ShortNames, domain \in ShortZones :
            normIn = [op |-> "_normalize_name", name |-> name, domain |-> domain]
       \/ \E name \in DocumentedNames :
            normIn = [op |-> "_normalize_name", name |-> name, domain |-> example_com]
    /\ normOut = <<>>
    /\ IdleBuild /\ IdlePost /\ IdleDns

NextNorm == Normalize /\ UNCHANGED <<buildVars, postVars, dnsVars>>

SpecNorm == InitNorm /\ [][NextNorm]_vars

-----------------------------------------------------------------------------
(* Dns: get_records, delete_record, edit_record                            *)
(* A record name or a domain is NameV(<<characters>>); ids, types, contents *)
(* and the other fields are StrV, IntV or None.                            *)

NameV(x) == [ty |-> "str", s |-> x]

\* truthiness of a name: the empty name and None are false
TruthyName(v) == v.ty # "none" /\ v.s # <<>>

\* const.SUPPORTED_DNS_RECORD_TYPES
SUPPORTED_DNS_RECORD_TYPES ==
    {"A", "AAAA", "MX", "CNAME", "ALIAS", "TXT", "NS", "SRV", "TLSA", "CAA"}

\* a value inside an f-string: str(v)
Fmt(v) == v.s

\* `if record_type and record_type not in SUPPORTED_DNS_RECORD_TYPES`
UnsupportedType(record_type) ==
    Truthy(record_type) /\ record_type.s \notin SUPPORTED_DNS_RECORD_TYPES

\* (mutant) a record type or a name alone passes as an addressing mode
AddressingMissingBoth(record_id, record_type, name) ==
    ~Truthy(record_id) /\ (~Truthy(record_type) /\ ~TruthyName(name))

\* `if not record_id and (not record_type or not name)`
AddressingMissing(record_id, record_type, name) ==
    ~Truthy(record_id) /\ (~Truthy(record_type) \/ ~TruthyName(name))

api_path == "/dns"

\* (mutant) a retrieval by type and name asks for the type alone
RetrievePathTypeOnly(domain, record_type, name, record_id) ==
    IF Truthy(record_id)
    THEN <<api_path, "retrieve", Fmt(domain), Fmt(record_id)>>
    ELSE IF Truthy(record_type)
    THEN <<api_path, "retrieveByNameType", Fmt(domain), Fmt(record_type)>>
    ELSE <<api_path, "retrieve", Fmt(domain)>>

\* the path get_records posts to
RetrievePath(domain, record_type, name, record_id) ==
    IF Truthy(record_id)
    THEN <<api_path, "retrieve", Fmt(domain), Fmt(record_id)>>
    ELSE IF TruthyName(name)
    THEN <<api_path, "retrieveByNameType", Fmt(domain), Fmt(record_type), Fmt(name)>>
    ELSE IF Truthy(record_type)
    THEN <<api_path, "retrieveByNameType", Fmt(domain), Fmt(record_type)>>
    ELSE <<api_path, "retrieve", Fmt(domain)>>

\* the DnsRecord get_records makes of one record of the response
ToDnsRecord(record_data, domain) ==
    LET data == IF "notes" \in DOMAIN record_data THEN record_data
                ELSE DictUpdate(record_data, [k \in {"notes"} |-> StrV("")])
    IN [id |-> StrV(data["id"].s),
        name |-> NameV(_normalize_name(IF data["name"].ty = "none" THEN <<>>
                                       ELSE data["name"].s, domain.s)),
        type |-> data["type"],
        content |-> data["content"],
        ttl |-> DictGet(data, "ttl"),
        prio |-> DictGet(data, "prio"),
        notes |-> DictGet(data, "notes")]

DnsResponse(records) == [ty |-> "DnsResponse", records |-> records]

\* get_records after api_post returned `response`
RecordsOf(response, domain) ==
    IF IsRaise(StatusCheck(response)) THEN StatusCheck(response)
    ELSE IF "records" \notin DOMAIN response.items
    THEN Raise("KeyError", "records")
    ELSE LET list == response.items["records"].items IN
         IF \E i \in 1..Len(list) :
               ~({"id", "name", "type", "content"} \subseteq DOMAIN list[i].items)
         THEN Raise("KeyError", "id, name, type or content")
         ELSE Return(DnsResponse([i \in 1..Len(list) |->
                                    ToDnsRecord(list[i].items, domain)]))

\* get_records: [ret: how the call ends, wire: the requests it sent]
get_records(client, domain, record_type, name, record_id, t) ==
    IF UnsupportedType(record_type)
    THEN [ret |-> Raise("ValueError", "Unsupported DNS record type"), wire |-> <<>>]
    ELSE LET path == RetrievePath(domain, record_type, name, record_id)
             r == api_post(client, path, EmptyDict, TRUE, FALSE, None, t)
         IN IF IsRaise(r.ret) THEN [ret |-> r.ret, wire |-> r.wire]
            ELSE [ret |-> RecordsOf(r.ret.value, domain), wire |-> r.wire]

\* delete_record: [ret, wire]
delete_record(client, domain, record_type, name, record_id, t) ==
    IF UnsupportedType(record_type)
    THEN [ret |-> Raise("ValueError", "Unsupported DNS record type"), wire |-> <<>>]
    ELSE IF AddressingMissing(record_id, record_type, name)
    THEN [ret |-> Raise("ValueError",
                        "Must provide either record_id OR both record_type and name"),
          wire |-> <<>>]
    ELSE LET path == IF Truthy(record_id)
                     THEN <<api_path, "delete", Fmt(domain), Fmt(record_id)>>
                     ELSE <<api_path, "deleteByNameType", Fmt(domain),
                            Fmt(record_type), Fmt(name)>>
             r == api_post(client, path, EmptyDict, TRUE, FALSE, None, t)
         IN IF IsRaise(r.ret) THEN [ret |-> r.ret, wire |-> r.wire]
            ELSE IF IsRaise(StatusCheck(r.ret.value))
            THEN [ret |-> StatusCheck(r.ret.value), wire |-> r.wire]
            ELSE [ret |-> Return(None), wire |-> r.wire]

\* the payload create_record builds: type and content, and of name, ttl, prio
\* and notes the values that are not None
CreatePayload(record_type, content, name, fields) ==
    LET given == [k \in {"type", "content", "name", "ttl", "prio", "notes"} |->
                    CASE k = "type" -> record_type
                      [] k = "content" -> content
                      [] k = "name" -> name
                      [] OTHER -> fields[k]]
    IN [k \in {x \in DOMAIN given :
                   x \in {"type", "content"} \/ given[x].ty # "none"} |-> given[k]]

\* the DnsRecord create_record returns for the response `response`
CreatedRecord(response, record_type, content, name, fields) ==
    IF "id" \notin DOMAIN response.items THEN Raise("KeyError", "id")
    ELSE Return([id |-> StrV(response.items["id"].s),
                 name |-> IF TruthyName(name) THEN name ELSE NameV(<<>>),
                 type |-> record_type,
                 content |-> content,
                 ttl |-> fields.ttl,
                 prio |-> fields.prio,
                 notes |-> fields.notes])

\* (mutant) the type is tested only when one is given, as the other calls do
CreateTypeRefusedIfGiven(record_type) ==
    Truthy(record_type) /\ record_type.s \notin SUPPORTED_DNS_RECORD_TYPES

\* `if record_type not in SUPPORTED_DNS_RECORD_TYPES`
CreateTypeRefused(record_type) ==
    record_type.ty = "none" \/ record_type.s \notin SUPPORTED_DNS_RECORD_TYPES

\* create_record: [ret, wire]
create_record(client, domain, record_type, content, name, fields, t) ==
    IF CreateTypeRefused(record_type)
    THEN [ret |-> Raise("ValueError", "Unsupported DNS record type"), wire |-> <<>>]
    ELSE LET path == <<api_path, "create", Fmt(domain)>>
             r == api_post(client, path,
                           CreatePayload(record_type, content, name, fields),
                           TRUE, FALSE, None, t)
         IN IF IsRaise(r.ret) THEN [ret |-> r.ret, wire |-> r.wire]
            ELSE IF IsRaise(StatusCheck(r.ret.value))
            THEN [ret |-> StatusCheck(r.ret.value), wire |-> r.wire]
            ELSE [ret |-> CreatedRecord(r.ret.value, record_type, content, name,
                                        fields),
                  wire |-> r.wire]

\* the payload edit_record builds: only the values that are not None
EditPayload(record_type, name, fields) ==
    LET given == [k \in {"name", "type", "content", "ttl", "prio", "notes"} |->
                    CASE k = "name" -> name
                      [] k = "type" -> record_type
                      [] OTHER -> fields[k]]
    IN [k \in {x \in DOMAIN given : given[x].ty # "none"} |-> given[k]]

\* (mutant) after the edit, the whole zone is retrieved and its first record
\* returned
EditRecordFetchesZone(client, domain, record_id, record_type, name, fields, t, t2) ==
    IF UnsupportedType(record_type)
    THEN [ret |-> Raise("ValueError", "Unsupported DNS record type"), wire |-> <<>>]
    ELSE IF AddressingMissing(record_id, record_type, name)
    THEN [ret |-> Raise("ValueError",
                        "Must provide either record_id OR both record_type and name"),
          wire |-> <<>>]
    ELSE IF EditPayload(record_type, name, fields) = EmptyDict
    THEN [ret |-> Raise("ValueError", "Must provide at least one field to update"),
          wire |-> <<>>]
    ELSE LET path == IF Truthy(record_id)
                     THEN <<api_path, "edit", Fmt(domain), Fmt(record_id)>>
                     ELSE <<api_path, "editByNameType", Fmt(domain),
                            Fmt(record_type), Fmt(name)>>
             r == api_post(client, path, EditPayload(record_type, name, fields),
                           TRUE, FALSE, None, t)
         IN IF IsRaise(r.ret) THEN [ret |-> r.ret, wire |-> r.wire]
            ELSE IF IsRaise(StatusCheck(r.ret.value))
            THEN [ret |-> StatusCheck(r.ret.value), wire |-> r.wire]
            ELSE LET g == get_records(client, domain, None, None, None, t2)
                     sent == r.wire \o g.wire
                 IN IF IsRaise(g.ret) THEN [ret |-> g.ret, wire |-> sent]
                    ELSE IF g.ret.value.records # <<>>
                    THEN [ret |-> Return(g.ret.value.records[1]), wire |-> sent]
                    ELSE [ret |-> Raise("RuntimeError",
                                        "Failed to retrieve updated record"),
                          wire |-> sent]

\* edit_record: [ret, wire]; t is the outcome of the edit request and t2 of
\* the retrieval that follows it
edit_record(client, domain, record_id, record_type, name, fields, t, t2) ==
    IF UnsupportedType(record_type)
    THEN [ret |-> Raise("ValueError", "Unsupported DNS record type"), wire |-> <<>>]
    ELSE IF AddressingMissing(record_id, record_type, name)
    THEN [ret |-> Raise("ValueError",
                        "Must provide either record_id OR both record_type and name"),
          wire |-> <<>>]
    ELSE IF EditPayload(record_type, name, fields) = EmptyDict
    THEN [ret |-> Raise("ValueError", "Must provide at least one field to update"),
          wire |-> <<>>]
    ELSE LET path == IF Truthy(record_id)
                     THEN <<api_path, "edit", Fmt(domain), Fmt(record_id)>>
                     ELSE <<api_path, "editByNameType", Fmt(domain),
                            Fmt(record_type), Fmt(name)>>
             r == api_post(client, path, EditPayload(record_type, name, fields),
                           TRUE, FALSE, None, t)
         IN IF IsRaise(r.ret) THEN [ret |-> r.ret, wire |-> r.wire]
            ELSE IF IsRaise(StatusCheck(r.ret.value))
            THEN [ret |-> StatusCheck(r.ret.value), wire |-> r.wire]
            ELSE LET g == IF Truthy(record_id)
                          THEN get_records(client, domain, None, None, record_id, t2)
                          ELSE get_records(client, domain, record_type, name, None, t2)
                     sent == r.wire \o g.wire
                 IN IF IsRaise(g.ret) THEN [ret |-> g.ret, wire |-> sent]
                    ELSE IF g.ret.value.records # <<>>
                    THEN [ret |-> Return(g.ret.value.records[1]), wire |-> sent]
                    ELSE [ret |-> Raise("RuntimeError",
                                        "Failed to retrieve updated record"),
                          wire |-> sent]

\* ---- the calls and the upstream answers the Dns wrapper is checked on ----

MaxRecords == 2

\* a key the upstream leaves out of a record
Absent == [ty |-> "absent", s |-> ""]

\* a record of the zone example.com as the upstream sends it
ServerRecord(id, prio, notes) ==
    LET full == [k \in {"id", "name", "type", "content", "ttl", "prio", "notes"} |->
                   CASE k = "id" -> id
                     [] k = "name" -> IF id.ty = "int"
                                      THEN NameV(www \o Dot \o example_com)
                                      ELSE NameV(example_com)
                     [] k = "type" -> StrV("A")
                     [] k = "content" -> StrV("198.51.100.45")
                     [] k = "ttl" -> StrV("600")
                     [] k = "prio" -> prio
                     [] k = "notes" -> notes]
    IN [k \in {x \in DOMAIN full : full[x].ty # "absent"} |-> full[k]]

\* the id as a number or a string; prio and notes absent, null or set
ServerRecords ==
    {ServerRecord(id, prio, notes) :
        id \in {IntV("42"), StrV("43")},
        prio \in {Absent, None, StrV("10")},
        notes \in {Absent, None, StrV("web server")}}

RECURSIVE ListsOver(_, _)
\* the lists of at most n elements of S
ListsOver(S, n) ==
    IF n = 0 THEN {<<>>}
    ELSE {<<>>} \cup {<<x>> \o l : x \in S, l \in ListsOver(S, n - 1)}

\* a successful retrieval
RecordsBody(list) ==
    DictV([k \in {"status", "records"} |->
             IF k = "status" THEN StrV("SUCCESS")
             ELSE ListV([i \in 1..Len(list) |-> DictV(list[i])])])

\* answers without records: success, the failure shapes, no JSON, no answer
PlainOutcomes ==
    {Response(200, DictV([k \in {"status"} |-> StrV("SUCCESS")])),
     Response(200, DictV([k \in {"message"} |->
                StrV("Domain is not opted in to API access.")])),
     Response(200, DictV([k \in {"status", "message"} |->
                IF k = "status" THEN StrV("ERROR") ELSE StrV("Invalid record ID.")])),
     Response(500, DictV([k \in {"status", "message"} |->
                IF k = "status" THEN StrV("ERROR") ELSE StrV("Invalid domain.")])),
     Response(502, TextBody("<html>502 Bad Gateway</html>")),
     ConnectError}

RetrieveOutcomes(n) ==
    PlainOutcomes \cup {Response(200, RecordsBody(l)) : l \in ListsOver(ServerRecords, n)}

DnsClient ==
    NewClient([_get_default_config EXCEPT
                  !["api_key"] = StrV("pk1_KEY"),
                  !["api_secret_key"] = StrV("sk1_SECRET")])

DnsDomain == NameV(example_com)
RecordIds == {None, StrV(""), StrV("42")}
RecordTypes == {None, StrV(""), StrV("A"), StrV("FOO")}
RecordNames == {None, NameV(<<>>), NameV(www)}
EditFields ==
    [content : {None, StrV("203.0.113.7")}, ttl : {None, StrV("300")},
     prio : {None, StrV("0")}, notes : {None, StrV("")}]

\* the answers to a creation: the plain ones, and success with the new id
CreateOutcomes ==
    PlainOutcomes \cup
    {Response(200, DictV([k \in {"status", "id"} |->
                IF k = "status" THEN StrV("SUCCESS") ELSE IntV("106926659")]))}

CreateNames == RecordNames \cup {NameV(www \o Dot \o example_com)}
CreateFields ==
    [ttl : {None, StrV("300")}, prio : {None, StrV("10")},
     notes : {None, StrV("web server")}]

\* a call of the wrapper: nothing outlives it but its result and its requests
DnsCall(call, r) ==
    /\ dnsCall' = call
    /\ dnsRet' = r.ret
    /\ wire' = r.wire
    /\ UNCHANGED <<buildVars, heap, postCall, postRet, calls, normVars, upstream>>

GetRecords ==
    /\ dnsCall = NoCall
    /\ \E record_type \in RecordTypes, name \in RecordNames, record_id \in RecordIds,
       t \in RetrieveOutcomes(MaxRecords) :
      DnsCall([op |-> "get_records", domain |-> DnsDomain,
               record_type |-> record_type, name |-> name, record_id |-> record_id,
               transport |-> t],
              get_records(buildRet, DnsDomain, record_type, name, record_id, t))

DeleteRecord ==
    /\ dnsCall = NoCall
    /\ \E record_type \in RecordTypes, name \in RecordNames, record_id \in RecordIds,
       t \in PlainOutcomes :
      DnsCall([op |-> "delete_record", domain |-> DnsDomain,
               record_type |-> record_type, name |-> name, record_id |-> record_id,
               transport |-> t],
              delete_record(buildRet, DnsDomain, record_type, name, record_id, t))

CreateRecord ==
    /\ dnsCall = NoCall
    /\ \E record_type \in RecordTypes, name \in CreateNames,
          fields \in CreateFields, t \in CreateOutcomes :
      LET content == StrV("198.51.100.45") IN
      DnsCall([op |-> "create_record", domain |-> DnsDomain,
               record_type |-> record_type, content |-> content, name |-> name,
               fields |-> fields, transport |-> t],
              create_record(buildRet, DnsDomain, record_type, content, name,
                            fields, t))

EditRecord ==
    /\ dnsCall = NoCall
    /\ \E record_type \in RecordTypes, name \in RecordNames, record_id \in RecordIds,
       fields \in EditFields, t \in PlainOutcomes, t2 \in RetrieveOutcomes(1) :
      DnsCall([op |-> "edit_record", domain |-> DnsDomain,
               record_type |-> record_type, name |-> name, record_id |-> record_id,
               fields |-> fields, transport |-> t, transport2 |-> t2],
              edit_record(buildRet, DnsDomain, record_id, record_type, name,
                          fields, t, t2))

InitDns ==
    /\ environ = EmptyDict /\ files = EmptyDict
    /\ buildCall = [op |-> "__init__"]
    /\ buildRet = DnsClient
    /\ heap = EmptyDict /\ postCall = NoCall /\ postRet = NoRet /\ wire = <<>>
    /\ calls = <<>>
    /\ IdleNorm /\ IdleDns

NextDns == GetRecords \/ CreateRecord \/ DeleteRecord \/ EditRecord

SpecDns == InitDns /\ [][NextDns]_vars

-----------------------------------------------------------------------------
(* api_post called from several threads on one client                      *)
(* Each call runs api_post statement by statement; the payload objects are  *)
(* shared memory, everything else is local to the call.                    *)

Threads == {"t1", "t2"}

NotStarted ==
    [pc |-> "idle", payload |-> "", before |-> EmptyDict, auth |-> FALSE,
     transport |-> ConnectError, ret |-> NoRet]

\* the payload objects of the callers: the fields of two different records
ConcHeap ==
    [o \in {"p1", "p2"} |->
       IF o = "p1"
       THEN [k \in {"type", "content", "name"} |->
               CASE k = "type" -> StrV("A")
                 [] k = "content" -> StrV("198.51.100.45")
                 [] k = "name" -> StrV("www")]
       ELSE [k \in {"type", "content"} |->
               IF k = "type" THEN StrV("TXT") ELSE StrV("v=spf1 -all")]]

ConcOutcomes ==
    {Response(200, DictV([k \in {"status"} |-> StrV("SUCCESS")])),
     Response(500, DictV([k \in {"status", "message"} |->
                IF k = "status" THEN StrV("ERROR") ELSE StrV("Invalid domain.")])),
     Response(502, TextBody("<html>502 Bad Gateway</html>")),
     ConnectError}

\* the call is entered with a payload object of the caller
Enter(th) ==
    /\ calls[th].pc = "idle"
    /\ \E ref \in DOMAIN heap, auth \in BOOLEAN, t \in ConcOutcomes :
         calls' = [calls EXCEPT ![th] =
                     [pc |-> "update", payload |-> ref, before |-> heap[ref],
                      auth |-> auth, transport |-> t, ret |-> NoRet]]
    /\ UNCHANGED <<heap, wire>>

\* `if auth: payload.update({...})`
UpdateStep(th) ==
    LET c == calls[th] IN
    /\ c.pc = "update"
    /\ heap' = [heap EXCEPT ![c.payload] = Inject(buildRet, heap[c.payload], c.auth)]
    /\ calls' = [calls EXCEPT ![th].pc = "post"]
    /\ UNCHANGED wire

\* `response = client.post(path, json=payload)` and `response.json()`: the
\* request is built from the payload object as it is now
PostStep(th) ==
    LET c == calls[th]
        t == c.transport
        req == Request(buildRet, "/dns/create/example.com", heap[c.payload],
                       FALSE, None)
    IN /\ c.pc = "post"
       /\ wire' = IF t.kind = "ConnectError" THEN wire
                  ELSE Append(wire, [thread |-> th, request |-> req])
       /\ calls' = [calls EXCEPT ![th] =
            IF t.kind = "ConnectError"
            THEN [c EXCEPT !.pc = "done", !.ret = Raise("ConnectError", "")]
            ELSE IF t.kind = "ReadTimeout"
            THEN [c EXCEPT !.pc = "done", !.ret = Raise("ReadTimeout", "")]
            ELSE IF ~JsonLoads(t.content).ok
            THEN [c EXCEPT !.pc = "done",
                           !.ret = ApiFailure(t.status_code, t.content)]
            ELSE [c EXCEPT !.pc = "pop_apikey"]]
       /\ UNCHANGED heap

\* payload.pop('apikey', None)
PopApikey(th) ==
    LET c == calls[th] IN
    /\ c.pc = "pop_apikey"
    /\ heap' = [heap EXCEPT ![c.payload] = DictPop(heap[c.payload], "apikey")]
    /\ calls' = [calls EXCEPT ![th].pc = "pop_secretapikey"]
    /\ UNCHANGED wire

\* payload.pop('secretapikey', None), and the return or the ApiError
PopSecretapikey(th) ==
    LET c == calls[th] IN
    /\ c.pc = "pop_secretapikey"
    /\ heap' = [heap EXCEPT ![c.payload] = DictPop(heap[c.payload], "secretapikey")]
    /\ calls' = [calls EXCEPT ![th] =
                   [c EXCEPT !.pc = "done",
                             !.ret = Classify(c.transport.status_code,
                                              JsonLoads(c.transport.content).value)]]
    /\ UNCHANGED wire

InitConc ==
    /\ environ = EmptyDict /\ files = EmptyDict
    /\ buildCall = [op |-> "__init__"]
    /\ buildRet \in PostClients
    /\ heap = ConcHeap
    /\ postCall = NoCall /\ postRet = NoRet /\ wire = <<>>
    /\ calls = [th \in Threads |-> NotStarted]
    /\ IdleNorm /\ IdleDns

NextConc ==
    /\ \E th \in Threads :
         \/ Enter(th) \/ UpdateStep(th) \/ PostStep(th)
         \/ PopApikey(th) \/ PopSecretapikey(th)
    /\ UNCHANGED <<buildVars, postCall, postRet, normVars, dnsVars>>

SpecConc == InitConc /\ [][NextConc]_vars

-----------------------------------------------------------------------------
(* Ssl.get, and the feature operations side by side                        *)

\* the fields of ssl.SslCertificate
SslFields == {"intermediatecertificate", "certificatechain", "privatekey", "publickey"}

SslCertificate(items) ==
    [ty |-> "SslCertificate", fields |-> [k \in SslFields |-> items[k]]]

\* (mutant) the error of api_post is caught and reported as a RuntimeError
SslGetWrapsErrors(client, domain, t) ==
    LET r == api_post(client, <<"/ssl/retrieve", Fmt(domain)>>, EmptyDict,
                      TRUE, FALSE, None, t) IN
    IF IsRaise(r.ret)
    THEN [ret |-> Raise("RuntimeError", "API request failed"), wire |-> r.wire]
    ELSE IF IsRaise(StatusCheck(r.ret.value))
    THEN [ret |-> StatusCheck(r.ret.value), wire |-> r.wire]
    ELSE IF ~(SslFields \subseteq DOMAIN r.ret.value.items)
    THEN [ret |-> Raise("KeyError", "a certificate field"), wire |-> r.wire]
    ELSE [ret |-> Return(SslCertificate(r.ret.value.items)), wire |-> r.wire]

\* Ssl.get: [ret, wire]
Ssl_get(client, domain, t) ==
    LET r == api_post(client, <<"/ssl/retrieve", Fmt(domain)>>, EmptyDict,
                      TRUE, FALSE, None, t) IN
    IF IsRaise(r.ret) THEN [ret |-> r.ret, wire |-> r.wire]
    ELSE IF IsRaise(StatusCheck(r.ret.value))
    THEN [ret |-> StatusCheck(r.ret.value), wire |-> r.wire]
    ELSE IF ~(SslFields \subseteq DOMAIN r.ret.value.items)
    THEN [ret |-> Raise("KeyError", "a certificate field"), wire |-> r.wire]
    ELSE [ret |-> Return(SslCertificate(r.ret.value.items)), wire |-> r.wire]

\* a certificate bundle, whole or with a field missing
SslBody(keys) ==
    DictV([k \in {"status"} \cup keys |->
             IF k = "status" THEN StrV("SUCCESS") ELSE StrV("-----BEGIN-----")])

\* the upstream answer while the certificate is not issued yet
CertificateNotReady ==
    Response(400, DictV([k \in {"status", "message"} |->
               IF k = "status" THEN StrV("ERROR")
               ELSE StrV("The SSL certificate is not ready for this domain.")]))

SslOutcomes ==
    PlainOutcomes \cup {CertificateNotReady}
        \cup {Response(200, SslBody(keys)) :
                keys \in {SslFields, SslFields \ {"privatekey"}}}

SslGet ==
    /\ dnsCall = NoCall
    /\ \E t \in SslOutcomes :
         DnsCall([op |-> "Ssl.get", domain |-> DnsDomain, transport |-> t],
                 Ssl_get(buildRet, DnsDomain, t))

\* one call of one feature operation on a client
NextFeature ==
    /\ postCall = NoCall
    /\ \/ GetRecords \/ CreateRecord \/ DeleteRecord \/ EditRecord \/ SslGet
       \/ /\ dnsCall = NoCall
          /\ Ping \/ PricingGet
          /\ UNCHANGED <<normVars, dnsVars>>

SpecFeature == InitDns /\ [][NextFeature]_vars

-----------------------------------------------------------------------------
(* The Dns operations against an upstream that stores what it is sent      *)
(* `upstream` is the list of the records of the zone, as the API lists     *)
(* them: the name fully qualified, the id a string.                        *)

\* the name the upstream stores for the subdomain `name` of `domain`
Fqdn(name, domain) == IF name = <<>> THEN domain ELSE name \o Dot \o domain

\* the ids the upstream hands out, in this order
StoredIds ==
    <<"106926651", "106926652", "106926653", "106926654", "106926655",
      "106926656", "106926657", "106926658">>

InvalidApiKey ==
    Response(403, DictV([k \in {"status", "message"} |->
               IF k = "status" THEN StrV("ERROR")
               ELSE StrV("Invalid API key. (002)")]))

\* the record the upstream stores for the payload of a create request
StoredRecord(id, domain, json) ==
    [k \in {"id", "name", "type", "content", "ttl", "prio", "notes"} |->
       CASE k = "id" -> StrV(id)
         [] k = "name" -> NameV(Fqdn(IF "name" \in DOMAIN json THEN json["name"].s
                                     ELSE <<>>, domain))
         [] k = "ttl" -> IF "ttl" \in DOMAIN json THEN json["ttl"] ELSE StrV("600")
         [] k = "prio" -> IF "prio" \in DOMAIN json THEN json["prio"] ELSE StrV("0")
         [] k = "notes" -> IF "notes" \in DOMAIN json THEN json["notes"] ELSE StrV("")
         [] OTHER -> json[k]]

\* the answer of the upstream to a request it refuses
Refused(message) ==
    Response(400, DictV([k \in {"status", "message"} |->
               IF k = "status" THEN StrV("ERROR") ELSE StrV(message)]))

\* the stored record after an edit request with the payload `json`
EditedRecord(record, domain, json) ==
    [k \in DOMAIN record |->
       IF k \in {"id"} \/ k \notin DOMAIN json THEN record[k]
       ELSE IF k = "name" THEN NameV(Fqdn(json["name"].s, domain))
       ELSE json[k]]

\* the records a retrieval request selects
Selected(store, path) ==
    IF path[2] = "retrieve"
    THEN IF Len(path) = 3 THEN store
         ELSE SelectSeq(store, LAMBDA r : r["id"].s = path[4])
    ELSE IF Len(path) = 4
    THEN SelectSeq(store, LAMBDA r : r["type"].s = path[4])
    ELSE SelectSeq(store, LAMBDA r : /\ r["type"].s = path[4]
                                     /\ r["name"].s = Fqdn(path[5], path[3]))

\* the id of the next record: the one after the highest id stored
NextId(store) ==
    LET used == {i \in 1..Len(StoredIds) :
                    \E j \in 1..Len(store) : store[j]["id"].s = StoredIds[i]}
    IN StoredIds[1 + Cardinality(used) + Cardinality({i \in 1..Len(StoredIds) :
                      i \notin used /\ \E u \in used : u > i})]

\* the upstream on one request: [store: the records afterwards, response]
ServerAnswer(store, req) ==
    IF ~({"apikey", "secretapikey"} \subseteq DOMAIN req.json)
    THEN [store |-> store, response |-> InvalidApiKey]
    ELSE IF req.path[2] = "create"
    THEN LET id == NextId(store) IN
         [store |-> Append(store, StoredRecord(id, req.path[3], req.json)),
          response |-> Response(200, DictV([k \in {"status", "id"} |->
                          IF k = "status" THEN StrV("SUCCESS") ELSE IntV(id)]))]
    ELSE IF req.path[2] \in {"retrieve", "retrieveByNameType"}
    THEN [store |-> store,
          response |-> Response(200, RecordsBody(Selected(store, req.path)))]
    ELSE IF req.path[2] \in {"delete", "edit"}
    THEN LET at == {i \in 1..Len(store) : store[i]["id"].s = req.path[4]} IN
         IF at = {} THEN [store |-> store, response |-> Refused("Invalid record ID.")]
         ELSE IF req.path[2] = "delete"
         THEN [store |-> SelectSeq(store, LAMBDA r : r["id"].s # req.path[4]),
               response |-> Response(200, DictV([k \in {"status"} |-> StrV("SUCCESS")]))]
         ELSE LET i == CHOOSE x \in at : TRUE
                  edited == EditedRecord(store[i], req.path[3], req.json)
              IN IF edited = store[i]
                 THEN [store |-> store,
                       response |-> Refused("Edit error: We were unable to edit the DNS record.")]
                 ELSE [store |-> [store EXCEPT ![i] = edited],
                       response |-> Response(200, DictV([k \in {"status"} |->
                                                           StrV("SUCCESS")]))]
    ELSE [store |-> store, response |-> Refused("Invalid request.")]

\* the calls made in a row, and the zones they start from
MaxCalls == 3

InitialZones ==
    {<<>>,
     <<StoredRecord("106926651", example_com,
                    [k \in {"type", "content"} |->
                       IF k = "type" THEN StrV("A") ELSE StrV("192.0.2.1")])>>,
     <<StoredRecord("106926651", example_com,
                    [k \in {"type", "content", "name"} |->
                       CASE k = "type" -> StrV("TXT")
                         [] k = "content" -> StrV("v=spf1 -all")
                         [] k = "name" -> NameV(www)])>>,
     <<StoredRecord("106926651", example_com,
                    [k \in {"type", "content", "name"} |->
                       CASE k = "type" -> StrV("A")
                         [] k = "content" -> StrV("192.0.2.1")
                         [] k = "name" -> NameV(www)])>>}

\* the call without the call before it
Latest(call) == [k \in DOMAIN call \ {"prev"} |-> call[k]]

\* the number of calls made so far
CallsMade == IF dnsCall = NoCall THEN 0 ELSE dnsCall.n

\* a call answered by the upstream
ServedCall(call, r, answer) ==
    /\ dnsCall' = [k \in DOMAIN call \cup {"transport", "before", "n", "prev"} |->
                     CASE k = "transport" -> answer.response
                       [] k = "before" -> upstream
                       [] k = "n" -> CallsMade + 1
                       [] k = "prev" -> [call |-> Latest(dnsCall), ret |-> dnsRet]
                       [] OTHER -> call[k]]
    /\ dnsRet' = r.ret
    /\ wire' = r.wire
    /\ upstream' = IF r.wire = <<>> THEN upstream ELSE answer.store
    /\ UNCHANGED <<buildVars, heap, postCall, postRet, calls, normVars>>

NoFields == [ttl |-> None, prio |-> None, notes |-> None]

ServedCreate ==
    /\ CallsMade < MaxCalls
    /\ \E record_type \in {StrV("A"), StrV("TXT")},
          name \in {NameV(www), NameV(<<>>)},
          content \in {StrV("198.51.100.45"), StrV("203.0.113.7")} :
         LET sent == create_record(buildRet, DnsDomain, record_type, content, name,
                                   NoFields, ReadTimeout).wire
             answer == ServerAnswer(upstream, sent[1])
         IN ServedCall([op |-> "create_record", domain |-> DnsDomain,
                        record_type |-> record_type, content |-> content,
                        name |-> name, fields |-> NoFields],
                       create_record(buildRet, DnsDomain, record_type, content,
                                     name, NoFields, answer.response),
                       answer)

ServedGet ==
    /\ CallsMade < MaxCalls
    /\ \E record_type \in {None, StrV("A"), StrV("TXT")},
          name \in {None, NameV(www)} :
         /\ TruthyName(name) => Truthy(record_type)
         /\ LET sent == get_records(buildRet, DnsDomain, record_type, name, None,
                                    ReadTimeout).wire
                answer == ServerAnswer(upstream, sent[1])
            IN ServedCall([op |-> "get_records", domain |-> DnsDomain,
                           record_type |-> record_type, name |-> name,
                           record_id |-> None],
                          get_records(buildRet, DnsDomain, record_type, name, None,
                                      answer.response),
                          answer)

InitServer ==
    /\ environ = EmptyDict /\ files = EmptyDict
    /\ buildCall = [op |-> "__init__"]
    /\ buildRet = DnsClient
    /\ heap = EmptyDict /\ postCall = NoCall /\ postRet = NoRet /\ wire = <<>>
    /\ calls = <<>>
    /\ IdleNorm
    /\ dnsCall = NoCall /\ dnsRet = NoRet
    /\ upstream \in InitialZones

NextServer == ServedCreate \/ ServedGet

SpecServer == InitServer /\ [][NextServer]_vars

-----------------------------------------------------------------------------
(* cli: the bulk helpers create_records, delete_records, edit_records      *)
(* A run happens in a world w = [store, wire, fault]: the records the       *)
(* upstream holds, the requests sent so far, and the request that is        *)
(* answered by a fault instead of the upstream.                             *)

\* `except (ApiError, ApiFailure, RuntimeError)`
CaughtErrors == {"ApiError", "ApiFailure", "RuntimeError"}

\* str(error): the message the exception was made with
ErrorStr(e) == IF "message" \in DOMAIN e THEN e.message ELSE e.msg

\* the answer to the k-th request of `sent`, the requests a call makes in the
\* world w: the fault when it is its turn, no answer when there is no such request
AnswerIn(w, sent, k) ==
    IF Len(sent) < k THEN [store |-> w.store, response |-> ReadTimeout]
    ELSE IF Len(w.wire) + k = w.fault.at
    THEN [store |-> w.store, response |-> w.fault.answer]
    ELSE ServerAnswer(w.store, sent[k])

\* the outcome r of a call of Dns in the world w, the upstream holding `store`
\* after it: [ret, w]
InWorld(w, store, r) ==
    [ret |-> r.ret, w |-> [w EXCEPT !.store = store, !.wire = w.wire \o r.wire]]

\* dns.create_record(domain, record['type'], record['content'], name=..., ...)
\* in the world w: [ret, w]
CreateIn(w, client, domain, record) ==
    LET fields == [ttl |-> DictGet(record, "ttl"),
                   prio |-> DictGet(record, "priority"),
                   notes |-> DictGet(record, "notes")]
        a == AnswerIn(w, create_record(client, domain, record["type"],
                                       record["content"], DictGet(record, "name"),
                                       fields, ReadTimeout).wire, 1)
    IN InWorld(w, a.store,
               create_record(client, domain, record["type"], record["content"],
                             DictGet(record, "name"), fields, a.response))

\* dns.delete_record(domain, record_id=record['id']) in the world w
DeleteIn(w, client, domain, record_id) ==
    LET a == AnswerIn(w, delete_record(client, domain, None, None, record_id,
                                       ReadTimeout).wire, 1)
    IN InWorld(w, a.store,
               delete_record(client, domain, None, None, record_id, a.response))

\* dns.edit_record(domain, record_id=record_id, record_type=record.get('type'),
\* name=record.get('name'), content=record.get('content'), ...) when its two
\* requests are answered by t and t2
EditCall(client, domain, record_id, record, t, t2) ==
    edit_record(client, domain, record_id, DictGet(record, "type"),
                DictGet(record, "name"),
                [content |-> DictGet(record, "content"),
                 ttl |-> DictGet(record, "ttl"),
                 prio |-> DictGet(record, "priority"),
                 notes |-> DictGet(record, "notes")],
                t, t2)

\* the call once both of its requests are answered, by a1 and by a2
EditDone(w, client, domain, record_id, record, a1, a2) ==
    InWorld(w, a2.store,
            EditCall(client, domain, record_id, record, a1.response, a2.response))

\* the call once the edit request is answered by a1: the retrieval, if it is made
EditSecond(w, client, domain, record_id, record, a1) ==
    EditDone(w, client, domain, record_id, record, a1,
             AnswerIn([w EXCEPT !.store = a1.store],
                      EditCall(client, domain, record_id, record, a1.response,
                               ReadTimeout).wire, 2))

\* the call in the world w: the edit request, then the retrieval
EditIn(w, client, domain, record_id, record) ==
    EditSecond(w, client, domain, record_id, record,
               AnswerIn(w, EditCall(client, domain, record_id, record, ReadTimeout,
                                    ReadTimeout).wire, 1))

\* {'SUCCESS': [], 'FAILURE': []}
NoResults == [SUCCESS |-> <<>>, FAILURE |-> <<>>]

\* an entry of a result list; index tells which object of the input list
\* `record` is
Entry(result, record, index) ==
    [result |-> result, record |-> record, index |-> index]

RECURSIVE CreateLoop(_, _, _, _, _, _)
\* the rest of an iteration of create_records, c being what dns.create_record
\* returned or raised for the i-th record, and the iterations after it
CreateNext(c, client, domain, records, i, created, record) ==
    IF IsRaise(c.ret)
    THEN IF c.ret.type \in CaughtErrors
         THEN CreateLoop(c.w, client, domain, records, i + 1,
                [created EXCEPT !.FAILURE =
                    Append(@, Entry(ErrorStr(c.ret), record, i))])
         ELSE [ret |-> c.ret, w |-> c.w]
    ELSE CreateLoop(c.w, client, domain, records, i + 1,
           [created EXCEPT !.SUCCESS =
               Append(@, Entry(c.ret.value,
                               DictUpdate(record, [k \in {"id"} |-> c.ret.value.id]),
                               i))])

\* the loop of create_records from the i-th record on
CreateLoop(w, client, domain, records, i, created) ==
    IF i > Len(records) THEN [ret |-> Return(created), w |-> w]
    ELSE LET record == DictPop(DictPop(records[i], "domain"), "id") IN
         IF ~({"type", "content"} \subseteq DOMAIN record)
         THEN [ret |-> Raise("KeyError", "type or content"), w |-> w]
         ELSE CreateNext(CreateIn(w, client, domain, record), client, domain,
                         records, i, created, record)

\* cli.create_records: [ret, w]
create_records(w, client, domain, records) ==
    CreateLoop(w, client, domain, records, 1, NoResults)

RECURSIVE DeleteLoop(_, _, _, _, _, _)
\* the rest of an iteration of delete_records, c being what dns.delete_record
\* returned or raised for the i-th record, and the iterations after it
DeleteNext(c, client, domain, records, i, deleted) ==
    IF IsRaise(c.ret)
    THEN IF c.ret.type \in CaughtErrors
         THEN DeleteLoop(c.w, client, domain, records, i + 1,
                [deleted EXCEPT !.FAILURE =
                    Append(@, Entry(ErrorStr(c.ret), records[i], i))])
         ELSE [ret |-> c.ret, w |-> c.w]
    ELSE DeleteLoop(c.w, client, domain, records, i + 1,
           [deleted EXCEPT !.SUCCESS =
               Append(@, Entry(StrV("SUCCESS"), records[i], i))])

\* the loop of delete_records from the i-th record on
DeleteLoop(w, client, domain, records, i, deleted) ==
    IF i > Len(records) THEN [ret |-> Return(deleted), w |-> w]
    ELSE IF "id" \notin DOMAIN records[i]
    THEN [ret |-> Raise("KeyError", "id"), w |-> w]
    ELSE DeleteNext(DeleteIn(w, client, domain, records[i]["id"]), client, domain,
                    records, i, deleted)

\* cli.delete_records: [ret, w]
delete_records(w, client, domain, records) ==
    DeleteLoop(w, client, domain, records, 1, NoResults)

RECURSIVE EditLoop(_, _, _, _, _, _)
\* the rest of an iteration of edit_records, c being what dns.edit_record
\* returned or raised for the i-th record, and the iterations after it
EditNext(c, client, domain, records, i, edited, record, record_id) ==
    IF IsRaise(c.ret)
    THEN IF c.ret.type \in CaughtErrors
         THEN EditLoop(c.w, client, domain, records, i + 1,
                [edited EXCEPT !.FAILURE =
                    Append(@, Entry(ErrorStr(c.ret), record, i))])
         ELSE [ret |-> c.ret, w |-> c.w]
    ELSE EditLoop(c.w, client, domain, records, i + 1,
           [edited EXCEPT !.SUCCESS =
               Append(@, Entry(c.ret.value,
                               DictUpdate(record, [k \in {"id"} |-> record_id]),
                               i))])

\* the loop of edit_records from the i-th record on
EditLoop(w, client, domain, records, i, edited) ==
    IF i > Len(records) THEN [ret |-> Return(edited), w |-> w]
    ELSE EditNext(EditIn(w, client, domain, DictGet(records[i], "id"),
                         DictPop(DictPop(records[i], "domain"), "id")),
                  client, domain, records, i, edited,
                  DictPop(DictPop(records[i], "domain"), "id"),
                  DictGet(records[i], "id"))

\* cli.edit_records: [ret, w]
edit_records(w, client, domain, records) ==
    EditLoop(w, client, domain, records, 1, NoResults)

-----------------------------------------------------------------------------
(* cli: run_dns_bulk, the bulk modes flush, add and merge                  *)

\* run_dns with the command get and neither id, name nor type, in the world w:
\* the text it returns, the records as JSON or the error message
run_dns_get(w, client, domain) ==
    LET a == AnswerIn(w, get_records(client, domain, None, None, None,
                                     ReadTimeout).wire, 1)
    IN [InWorld(w, w.store,
                get_records(client, domain, None, None, None, a.response))
          EXCEPT !.ret = IF IsRaise(@)
                         THEN IF @.type \in CaughtErrors
                              THEN Return(TextBody(<<"Error -> ", ErrorStr(@)>>))
                              ELSE @
                         ELSE Return(ListV(@.value.records))]

\* (mutant) the records of the type NS are kept
DropNSKeepsAll(records) == records

\* [record for record in records if record['type'] != 'NS']
DropNS(records) == SelectSeq(records, LAMBDA r : r["type"] # StrV("NS"))

\* x in list
InList(x, list) == \E i \in 1..Len(list) : list[i] = x

RECURSIVE MatchesAny(_, _, _)
\* (mutant) a record with the id of an existing record is edited whether or not
\* it differs from it
MatchesAny(existing_records, j, user_record) ==
    IF j > Len(existing_records) THEN <<>>
    ELSE (IF existing_records[j]["id"] = user_record["id"]
          THEN <<user_record>> ELSE <<>>)
         \o MatchesAny(existing_records, j + 1, user_record)

RECURSIVE Matches(_, _, _)
\* the inner loop of the merge from the j-th existing record on: user_record is
\* added to to_edit for each existing record that has its id and differs from it
Matches(existing_records, j, user_record) ==
    IF j > Len(existing_records) THEN <<>>
    ELSE (IF /\ existing_records[j]["id"] = user_record["id"]
             /\ existing_records[j] # user_record
          THEN <<user_record>> ELSE <<>>)
         \o Matches(existing_records, j + 1, user_record)

RECURSIVE MergeLists(_, _, _, _)
\* the first loop of the merge from the i-th user record on: [to_edit, to_create]
MergeLists(existing_records, user_provided_records, i, lists) ==
    IF i > Len(user_provided_records) THEN lists
    ELSE LET user_record == user_provided_records[i] IN
         IF DictGet(user_record, "id").ty # "none"
         THEN IF user_record["id"].s # ""
              THEN MergeLists(existing_records, user_provided_records, i + 1,
                     [lists EXCEPT !.to_edit =
                         @ \o Matches(existing_records, 1, user_record)])
              ELSE MergeLists(existing_records, user_provided_records, i + 1,
                     [lists EXCEPT !.to_create = Append(@, user_record)])
         ELSE MergeLists(existing_records, user_provided_records, i + 1,
                [lists EXCEPT !.to_create = Append(@, user_record)])

\* (mutant) every record that is not created is ignored
IgnoredNotCreated(user_provided_records, to_create, to_edit) ==
    SelectSeq(user_provided_records, LAMBDA r : ~InList(r, to_create))

\* the second loop of the merge: the records in neither list
Ignored(user_provided_records, to_create, to_edit) ==
    SelectSeq(user_provided_records,
              LAMBDA r : ~InList(r, to_create) /\ ~InList(r, to_edit))

\* what is written to the output file
BulkResult(created, edited, deleted, ignored) ==
    [CREATED |-> created, EDITED |-> edited, DELETED |-> deleted,
     IGNORED |-> ignored]

\* mode flush once delete_records has returned or raised d.ret: create_records
\* on the records of the file, and the result
FlushLoad(d, client, domain, user_provided_records) ==
    IF IsRaise(d.ret) THEN [ret |-> d.ret, w |-> d.w]
    ELSE [create_records(d.w, client, domain, user_provided_records)
            EXCEPT !.ret = IF IsRaise(@) THEN @
                           ELSE Return(BulkResult(@.value, NoResults, d.ret.value,
                                                  <<>>))]

\* (mutant) flush loads the file before it deletes the existing records
FlushCreatesFirst(w, client, domain, existing_records, user_provided_records) ==
    LET c == create_records(w, client, domain, user_provided_records) IN
    IF IsRaise(c.ret) THEN [ret |-> c.ret, w |-> c.w]
    ELSE LET d == delete_records(c.w, client, domain, existing_records) IN
         IF IsRaise(d.ret) THEN [ret |-> d.ret, w |-> d.w]
         ELSE [ret |-> Return(BulkResult(c.ret.value, NoResults, d.ret.value, <<>>)),
               w |-> d.w]

\* mode flush: delete_records on the existing records, then create_records
Flush(w, client, domain, existing_records, user_provided_records) ==
    FlushLoad(delete_records(w, client, domain, existing_records), client, domain,
              user_provided_records)

\* mode add: create_records on the records of the file
Add(w, client, domain, user_provided_records) ==
    [create_records(w, client, domain, user_provided_records)
       EXCEPT !.ret = IF IsRaise(@) THEN @
                      ELSE Return(BulkResult(@.value, NoResults, NoResults, <<>>))]

\* the lists of the merge: to_create, to_edit, ignored
MergePlan(existing_records, user_provided_records) ==
    LET lists == MergeLists(existing_records, user_provided_records, 1,
                            [to_edit |-> <<>>, to_create |-> <<>>])
    IN [to_create |-> lists.to_create, to_edit |-> lists.to_edit,
        ignored |-> Ignored(user_provided_records, lists.to_create, lists.to_edit)]

\* mode merge once create_records has returned or raised c.ret: edit_records
\* on to_edit, and the result
MergeEdit(c, client, domain, to_edit, ignored) ==
    IF IsRaise(c.ret) THEN [ret |-> c.ret, w |-> c.w]
    ELSE [edit_records(c.w, client, domain, to_edit)
            EXCEPT !.ret = IF IsRaise(@) THEN @
                           ELSE Return(BulkResult(c.ret.value, @.value, NoResults,
                                                  ignored))]

\* mode merge: create_records on to_create, then edit_records on to_edit
Merge(w, client, domain, existing_records, user_provided_records) ==
    LET plan == MergePlan(existing_records, user_provided_records)
    IN MergeEdit(create_records(w, client, domain, plan.to_create), client, domain,
                 plan.to_edit, plan.ignored)

NoPlan == [to_create |-> <<>>, to_edit |-> <<>>, ignored |-> <<>>]

\* run_dns_bulk once run_dns has returned or raised g.ret for the existing
\* records: [ret, w, plan: the lists of the merge, reached: the existing records
\* were loaded]
BulkModes(g, client, domain, mode, include_ns, file) ==
    IF IsRaise(g.ret)
    THEN [ret |-> g.ret, w |-> g.w, plan |-> NoPlan, reached |-> FALSE]
    ELSE IF ~JsonLoads(g.ret.value).ok
    THEN [ret |-> Raise("JSONDecodeError", "Expecting value"), w |-> g.w,
          plan |-> NoPlan, reached |-> FALSE]
    ELSE LET loaded == JsonLoads(g.ret.value).value.items
             existing_records == IF include_ns THEN loaded ELSE DropNS(loaded)
             user_provided_records == IF include_ns THEN file ELSE DropNS(file)
         IN (CASE mode = "flush" ->
                    Flush(g.w, client, domain, existing_records,
                          user_provided_records)
               [] mode = "add" ->
                    Add(g.w, client, domain, user_provided_records)
               [] mode = "merge" ->
                    Merge(g.w, client, domain, existing_records,
                          user_provided_records))
            @@ [plan |-> IF mode = "merge"
                         THEN MergePlan(existing_records, user_provided_records)
                         ELSE NoPlan,
                reached |-> TRUE]

\* cli.run_dns_bulk on the records `file` of the input file, the result
\* written or the exception being ret
run_dns_bulk(w, client, domain, mode, include_ns, file) ==
    BulkModes(run_dns_get(w, client, domain), client, domain, mode, include_ns,
              file)

\* ---- the zones, input files and faults the bulk modes are checked on ----

\* the longest input list
MaxFile == 2

ZoneA ==
    StoredRecord("106926651", example_com,
                 [k \in {"type", "content", "name"} |->
                    CASE k = "type" -> StrV("A")
                      [] k = "content" -> StrV("198.51.100.45")
                      [] k = "name" -> NameV(www)])

ZoneNS ==
    StoredRecord("106926652", example_com,
                 [k \in {"type", "content"} |->
                    IF k = "type" THEN StrV("NS") ELSE StrV("ns1.example.net")])

BulkZones == {<<>>, <<ZoneA>>, <<ZoneA, ZoneNS>>}

\* a record of an input file with the fields id, name, type and content; Absent
\* leaves the key out
FileRecord(id, name, type, content) ==
    LET full == [k \in {"id", "name", "type", "content"} |->
                   CASE k = "id" -> id
                     [] k = "name" -> name
                     [] k = "type" -> type
                     [] k = "content" -> content]
    IN [k \in {x \in DOMAIN full : full[x].ty # "absent"} |-> full[k]]

\* records to create (no id, an empty id), the existing A record as retrieved
\* and with another content, an id nothing has, NS records, an unsupported type
FileRecords ==
    {FileRecord(Absent, NameV(web), StrV("A"), StrV("203.0.113.7")),
     FileRecord(StrV(""), NameV(www), StrV("TXT"), StrV("v=spf1 -all")),
     ToDnsRecord(ZoneA, DnsDomain),
     [ToDnsRecord(ZoneA, DnsDomain) EXCEPT !.content = StrV("203.0.113.7")],
     FileRecord(StrV("999"), NameV(web), StrV("A"), StrV("203.0.113.7")),
     FileRecord(Absent, NameV(<<>>), StrV("NS"), StrV("ns2.example.net")),
     FileRecord(Absent, NameV(web), StrV("FOO"), StrV("203.0.113.7")),
     FileRecord(StrV("106926652"), NameV(<<>>), StrV("NS"), StrV("ns2.example.net")),
     FileRecord(StrV("106926652"), NameV(<<>>), StrV("A"), StrV("203.0.113.7"))}

NoFault == [at |-> 0, answer |-> ConnectError]

\* one of the first requests of the run is answered by an error of the
\* upstream, by a success that is none, or not at all
Faults ==
    {NoFault} \cup
    [at : 1..4,
     answer : {Refused("Invalid domain."),
               Response(200, DictV([k \in {"status", "message"} |->
                  IF k = "status" THEN StrV("ERROR")
                  ELSE StrV("Domain is not opted in to API access.")])),
               ConnectError}]

\* the records the helpers are called on directly
HelperRecords ==
    {FileRecord(Absent, NameV(web), StrV("A"), StrV("203.0.113.7")),
     FileRecord(StrV(""), NameV(www), StrV("TXT"), StrV("v=spf1 -all")),
     [ToDnsRecord(ZoneA, DnsDomain) EXCEPT !.content = StrV("203.0.113.7")],
     FileRecord(StrV("999"), NameV(web), StrV("A"), StrV("203.0.113.7")),
     FileRecord(Absent, NameV(web), StrV("FOO"), StrV("203.0.113.7"))}

World(fault) == [store |-> upstream, wire |-> <<>>, fault |-> fault]

\* a run of the command line: its result, its requests, and the zone afterwards
BulkCall(call, r) ==
    /\ dnsCall' = IF "plan" \in DOMAIN r
                  THEN call @@ [plan |-> r.plan, reached |-> r.reached]
                  ELSE call
    /\ dnsRet' = r.ret
    /\ wire' = r.w.wire
    /\ upstream' = r.w.store
    /\ UNCHANGED <<buildVars, heap, postCall, postRet, calls, normVars>>

RunDnsBulk ==
    /\ dnsCall = NoCall
    /\ \E mode \in {"flush", "merge", "add"}, include_ns \in BOOLEAN,
          file \in ListsOver(FileRecords, MaxFile), fault \in Faults :
         BulkCall([op |-> "run_dns_bulk", domain |-> DnsDomain, mode |-> mode,
                   include_ns |-> include_ns, file |-> file, fault |-> fault,
                   before |-> upstream],
                  run_dns_bulk(World(fault), buildRet, DnsDomain, mode,
                               include_ns, file))

\* a call of one helper on a list of records
HelperCall(op, records, fault, r) ==
    BulkCall([op |-> op, domain |-> DnsDomain, records |-> records,
              fault |-> fault, before |-> upstream], r)

CreateRecords ==
    /\ dnsCall = NoCall
    /\ \E records \in ListsOver(HelperRecords, MaxFile), fault \in Faults :
         HelperCall("create_records", records, fault,
                    create_records(World(fault), buildRet, DnsDomain, records))

DeleteRecords ==
    /\ dnsCall = NoCall
    /\ \E records \in ListsOver(HelperRecords, MaxFile), fault \in Faults :
         HelperCall("delete_records", records, fault,
                    delete_records(World(fault), buildRet, DnsDomain, records))

EditRecords ==
    /\ dnsCall = NoCall
    /\ \E records \in ListsOver(HelperRecords, MaxFile), fault \in Faults :
         HelperCall("edit_records", records, fault,
                    edit_records(World(fault), buildRet, DnsDomain, records))

InitBulk ==
    /\ environ = EmptyDict /\ files = EmptyDict
    /\ buildCall = [op |-> "__init__"]
    /\ buildRet = DnsClient
    /\ heap = EmptyDict /\ postCall = NoCall /\ postRet = NoRet /\ wire = <<>>
    /\ calls = <<>>
    /\ IdleNorm
    /\ dnsCall = NoCall /\ dnsRet = NoRet
    /\ upstream \in BulkZones

NextBulk == RunDnsBulk \/ CreateRecords \/ DeleteRecords \/ EditRecords

SpecBulk == InitBulk /\ [][NextBulk]_vars

-----------------------------------------------------------------------------
(* Configuration precedence and credential validation (C1, C2)             *)

\* the sources of a key, highest priority first
Sources == <<"argument", "named_file", "env_var", "env_file", "default">>

FileDefines(path, k) == files[path].kind = "json" /\ k \in DOMAIN files[path].data

\* a JSON value as a configuration value: an integer http2 is a flag
FileValue(path, k) ==
    LET v == files[path].data[k] IN
    IF k = "http2" /\ v.ty = "int" THEN BoolV(v.s # "0") ELSE v

\* whether the source defines key k, for the last call of build
SourceDefines(src, k) ==
    CASE src = "argument" -> buildCall.args[k] # None
      [] src = "named_file" ->
           /\ buildCall.file_name # None
           /\ FileDefines(buildCall.file_name.s, k)
      [] src = "env_var" -> EnvName(k) \in DOMAIN environ /\ environ[EnvName(k)] # ""
      [] src = "env_file" ->
           /\ ConfigFileVar \in DOMAIN environ
           /\ FileDefines(environ[ConfigFileVar], k)
      [] src = "default" -> TRUE

\* the value the source gives key k
SourceValue(src, k) ==
    CASE src = "argument" -> buildCall.args[k]
      [] src = "named_file" -> FileValue(buildCall.file_name.s, k)
      [] src = "env_var" -> Converter(k, environ[EnvName(k)])
      [] src = "env_file" -> FileValue(environ[ConfigFileVar], k)
      [] src = "default" -> _get_default_config[k]

\* the value of the highest-priority source among `consulted` that defines k
Resolved(consulted, k) ==
    LET i == CHOOSE i \in 1..Len(Sources) :
               /\ Sources[i] \in consulted /\ SourceDefines(Sources[i], k)
               /\ \A j \in 1..(i - 1) :
                    ~(Sources[j] \in consulted /\ SourceDefines(Sources[j], k))
    IN SourceValue(Sources[i], k)

AllSources == {Sources[i] : i \in 1..Len(Sources)}

\* the sources build consults: the two environment sources only with read_env
Consulted ==
    IF buildCall.read_env THEN AllSources ELSE AllSources \ {"env_var", "env_file"}

Built == buildCall # NoCall /\ buildRet.kind = "client"

\* C1 as stated: the built client holds, for every key, the value of the
\* highest-priority source that defines it, in the order explicit argument >
\* file named by file_name > environment variable > file named by
\* PYRK_CONFIG_FILE > default, for every combination of defining sources.
C1_AsStated ==
    Built => \A k \in Keys : buildRet.config[k] = Resolved(AllSources, k)

\* C1 (amended): the same precedence holds among the sources build consults:
\* all five when read_env is true, and only explicit argument > file named by
\* file_name > default when read_env is false, in which case the environment
\* variables and the file named by PYRK_CONFIG_FILE change nothing.
C1_Precedence ==
    Built => \A k \in Keys : buildRet.config[k] = Resolved(Consulted, k)

\* a client was built with read_env, for a tunable that all four sources define
C1_Witness ==
    /\ Built /\ buildCall.read_env
    /\ \E k \in Keys \ {"api_key", "api_secret_key"} :
         \A i \in 1..4 : SourceDefines(Sources[i], k)

Empty(v) == v = None \/ v = StrV("")

\* C2: whenever the merged api_key or the merged api_secret_key is empty,
\* build raises its configuration error (ValueError) and returns no client.
C2_CredentialsRequired ==
    (/\ buildCall # NoCall
     /\ \/ Empty(Resolved(Consulted, "api_key"))
        \/ Empty(Resolved(Consulted, "api_secret_key")))
    => /\ buildRet.kind = "raise"
       /\ buildRet.type = "ValueError"

\* build was refused with the key set and the secret empty
C2_Witness ==
    /\ buildCall # NoCall
    /\ ~Empty(Resolved(Consulted, "api_key"))
    /\ Empty(Resolved(Consulted, "api_secret_key"))
    /\ buildRet = Raise("ValueError", "api_key and api_secret_key are required")

-----------------------------------------------------------------------------
(* The outcomes of api_post (C3, C4, C5)                                   *)

PostDone == postCall # NoCall
GotResponse == PostDone /\ postCall.transport.kind = "response"

\* C3 as stated: after any authenticated api_post call ends, however it ends,
\* the payload object the caller passed in contains neither 'apikey' nor
\* 'secretapikey'.
C3_AsStated ==
    (PostDone /\ postCall.auth /\ postCall.payload # None)
    => LET payload == heap[postCall.payload.s] IN
       "apikey" \notin DOMAIN payload /\ "secretapikey" \notin DOMAIN payload

\* C4 as stated: for every response whose body decodes as a JSON mapping,
\* api_post returns the mapping if and only if the HTTP status is 200, and for
\* every other status raises ApiError carrying that status, whatever fields the
\* mapping holds.
C4_AsStated ==
    (GotResponse /\ postCall.op \in {"api_post", "ping"}
       /\ postCall.transport.content.ty = "dict")
    => IF postCall.transport.status_code = 200
       THEN postRet = Return(postCall.transport.content)
       ELSE /\ postRet.kind = "raise"
            /\ postRet.type = "ApiError"
            /\ postRet.http_status = postCall.transport.status_code

\* C5: whenever the response body cannot be decoded as JSON, for any HTTP
\* status including 200, api_post raises ApiFailure carrying the HTTP status
\* code and the raw body; it neither returns a result nor raises ApiError.
C5_NonJsonIsApiFailure ==
    (GotResponse /\ postCall.transport.content.ty = "text")
    => postRet = ApiFailure(postCall.transport.status_code,
                            postCall.transport.content)

\* a 200 response with a body that is no JSON ended in ApiFailure
C5_Witness ==
    /\ GotResponse
    /\ postCall.transport.status_code = 200
    /\ postCall.transport.content.ty = "text"
    /\ postRet.kind = "raise" /\ postRet.type = "ApiFailure"
    /\ postRet.http_status = 200

-----------------------------------------------------------------------------
(* Record name normalization (C6, C7)                                      *)

\* C6 as stated: normalize(normalize(x, zone), zone) = normalize(x, zone) for
\* every name x and every zone.
C6_AsStated == Len(normOut) >= 2 => normOut[2] = normOut[1]

\* a name relative to the zone: no trailing dot, not the zone, no zone suffix
ZoneRelative(r, zone) ==
    /\ ~EndsWith(r, Dot)
    /\ r # zone
    /\ ~EndsWith(r, Dot \o zone)

\* a zone-relative name, alone or qualified by the zone, with or without the
\* trailing dot of the fully qualified form; or the zone itself
Qualified(x, zone) ==
    \/ x \in {zone, zone \o Dot}
    \/ \E n \in 0..Len(x) :
         LET r == SubSeq(x, 1, n) IN
         /\ ZoneRelative(r, zone)
         /\ x \in {r, r \o Dot, r \o Dot \o zone, r \o Dot \o zone \o Dot}

\* C6 (amended): normalization is idempotent on every name that is a
\* zone-relative name, alone or followed by '.' + zone, with or without one
\* trailing '.', and on the zone itself.
C6_IdempotentOnQualified ==
    (Len(normOut) >= 2 /\ Qualified(normIn.name, normIn.domain))
    => normOut[2] = normOut[1]

\* a fully qualified name was normalized twice
C6_Witness ==
    /\ Len(normOut) >= 2
    /\ normIn.name = www_example_com_dot /\ normIn.domain = example_com
    /\ normOut[1] = www /\ normOut[2] = www

\* the rule of the specification: strip one trailing dot; the apex if the rest
\* is empty or the zone; else without '.' + zone if it ends so; else unchanged
ReferenceName(name, zone) ==
    LET rest == IF name # <<>> /\ name[Len(name)] = "." THEN DropLast(name, 1)
                ELSE name
    IN IF rest = <<>> \/ rest = zone THEN <<>>
       ELSE IF EndsWith(rest, Dot \o zone) THEN DropLast(rest, Len(zone) + 1)
       ELSE rest

\* C7: _normalize_name(name, zone) equals the reference rule for every name and
\* zone; 'www.example.com.' gives 'www', 'web.example.com' gives 'web',
\* 'example.com' gives '' and 'www' gives 'www' for zone 'example.com'.
C7_MatchesReference ==
    Len(normOut) >= 1 =>
      /\ normOut[1] = ReferenceName(normIn.name, normIn.domain)
      /\ normIn.domain = example_com =>
           /\ normIn.name = www_example_com_dot => normOut[1] = www
           /\ normIn.name = web_example_com => normOut[1] = web
           /\ normIn.name = example_com => normOut[1] = <<>>
           /\ normIn.name = www => normOut[1] = www

\* the fully qualified name of the zone itself was normalized to the apex
C7_Witness ==
    /\ Len(normOut) >= 1
    /\ normIn.name = <<"a", ".", "z", ".">> /\ normIn.domain = <<"a", ".", "z">>
    /\ normOut[1] = <<>>

-----------------------------------------------------------------------------
(* The retrieval of records and the addressing of a record (C8, C9, C10)   *)

DnsDone(op) == dnsCall.op = op /\ dnsRet.kind # "none"

\* C8 (the claim as stated): every record get_records returns has notes ''
\* when the upstream notes are absent or null, prio '0' when the upstream prio
\* is null, and a string id whether the upstream id is a number or a string
C8_AsStated ==
    (DnsDone("get_records") /\ dnsRet.kind = "return") =>
        LET sent == dnsCall.transport.content.items["records"].items
            got == dnsRet.value.records
        IN \A i \in 1..Len(got) :
              /\ got[i].id.ty = "str" /\ got[i].id.s = sent[i].items["id"].s
              /\ DictGet(sent[i].items, "notes") = None => got[i].notes = StrV("")
              /\ ("prio" \in DOMAIN sent[i].items /\ sent[i].items["prio"] = None)
                    => got[i].prio = StrV("0")

\* no record id, and not both a record type and a name
C9_NoAddressing ==
    /\ ~Truthy(dnsCall.record_id)
    /\ ~(Truthy(dnsCall.record_type) /\ TruthyName(dnsCall.name))

\* C9: delete_record and edit_record, called with no record id and without both
\* a record type and a name, end in ValueError and send no request
C9_AddressingRequired ==
    ((DnsDone("delete_record") \/ DnsDone("edit_record")) /\ C9_NoAddressing) =>
        /\ IsRaise(dnsRet) /\ dnsRet.type = "ValueError"
        /\ wire = <<>>

C9_Witness ==
    /\ DnsDone("edit_record")
    /\ dnsCall.record_id = None /\ dnsCall.record_type = StrV("A")
    /\ dnsCall.name.ty = "none" /\ dnsCall.fields.content # None
    /\ IsRaise(dnsRet) /\ dnsRet.type = "ValueError"
    /\ dnsRet.msg = "Must provide either record_id OR both record_type and name"
    /\ wire = <<>>

\* the path the claim gives for a retrieval
C10_StatedPath(domain, record_type, name, record_id) ==
    IF Truthy(record_id)
    THEN <<"/dns", "retrieve", domain.s, record_id.s>>
    ELSE IF Truthy(record_type) /\ TruthyName(name)
    THEN <<"/dns", "retrieveByNameType", domain.s, record_type.s, name.s>>
    ELSE IF Truthy(record_type)
    THEN <<"/dns", "retrieveByNameType", domain.s, record_type.s>>
    ELSE <<"/dns", "retrieve", domain.s>>

\* C10 (the claim as stated): get_records posts to retrieve/{domain}/{id} when
\* an id is given, else to retrieveByNameType/{domain}/{type}/{name} when type
\* and name are given, else to retrieveByNameType/{domain}/{type} when a type is
\* given, else to retrieve/{domain}
C10_AsStated ==
    (DnsDone("get_records") /\ wire # <<>>) =>
        wire[1].path = C10_StatedPath(dnsCall.domain, dnsCall.record_type,
                                      dnsCall.name, dnsCall.record_id)

-----------------------------------------------------------------------------
(* Validation before the network, and the records that are returned        *)
(* (C11, C12, C16, C18, C19)                                               *)

\* C11: create_record with a record type outside the supported set ends in
\* ValueError and sends no request
C11_UnsupportedTypeRefused ==
    (DnsDone("create_record")
       /\ dnsCall.record_type.s \notin
            {"A", "AAAA", "MX", "CNAME", "ALIAS", "TXT", "NS", "SRV", "TLSA", "CAA"})
    => /\ IsRaise(dnsRet) /\ dnsRet.type = "ValueError"
       /\ wire = <<>>

\* create_record was called with the type FOO and every other argument in order
C11_Witness ==
    /\ DnsDone("create_record")
    /\ dnsCall.record_type = StrV("FOO")
    /\ dnsCall.name.ty = "str" /\ dnsCall.name.s = www
    /\ dnsCall.transport.kind = "response" /\ dnsCall.transport.status_code = 200
    /\ IsRaise(dnsRet) /\ dnsRet.type = "ValueError"
    /\ wire = <<>>

\* the call named a record: by id, or by type and name
ValidAddressing ==
    \/ Truthy(dnsCall.record_id)
    \/ Truthy(dnsCall.record_type) /\ TruthyName(dnsCall.name)

\* none of content, ttl, prio and notes was supplied
NoFieldSupplied == \A k \in DOMAIN dnsCall.fields : dnsCall.fields[k] = None

\* C12 (the claim as stated): edit_record with a valid addressing mode and none
\* of content, ttl, prio, notes supplied ends in ValueError and sends no
\* request, in both addressing modes
C12_AsStated ==
    (DnsDone("edit_record") /\ ValidAddressing /\ NoFieldSupplied)
    => /\ IsRaise(dnsRet) /\ dnsRet.type = "ValueError"
       /\ wire = <<>>

\* an answer that is HTTP 200, JSON, with the status SUCCESS
Succeeded(t) ==
    /\ t.kind = "response" /\ t.status_code = 200
    /\ t.content.ty = "dict"
    /\ DictGet(t.content.items, "status") = StrV("SUCCESS")

\* the requests of the call that are retrievals
Retrievals ==
    {i \in 1..Len(wire) : wire[i].path[2] \in {"retrieve", "retrieveByNameType"}}

\* the edit request was sent, i.e. the call passed its validation
EditSent ==
    /\ DnsDone("edit_record")
    /\ ~(IsRaise(dnsRet) /\ dnsRet.type = "ValueError")

\* C16: after a successful edit, edit_record retrieves the edited record (by id
\* when an id was given, otherwise by type and name) after the edit request,
\* and returns the first fetched record; when the edit request fails no
\* retrieval is issued
C16_RefetchAfterEdit ==
    EditSent =>
      IF Succeeded(dnsCall.transport)
      THEN /\ dnsCall.transport2.kind = "ConnectError"
                => dnsRet = Raise("ConnectError", "")
           /\ dnsCall.transport2.kind = "response" =>
                /\ Len(wire) = 2 /\ Retrievals = {2}
                /\ wire[1].path[2] \in {"edit", "editByNameType"}
                /\ wire[2].path =
                     IF Truthy(dnsCall.record_id)
                     THEN <<"/dns", "retrieve", dnsCall.domain.s, dnsCall.record_id.s>>
                     ELSE <<"/dns", "retrieveByNameType", dnsCall.domain.s,
                            dnsCall.record_type.s, dnsCall.name.s>>
                /\ dnsRet.kind = "return" =>
                     LET fetched == dnsCall.transport2.content.items["records"].items[1].items
                     IN /\ dnsRet.value.id.s = fetched["id"].s
                        /\ dnsRet.value.type = fetched["type"]
                        /\ dnsRet.value.content = fetched["content"]
                        /\ dnsRet.value.ttl = fetched["ttl"]
      ELSE Retrievals = {} /\ IsRaise(dnsRet)

\* an edit by type and name succeeded, the record was fetched and returned
C16_Witness ==
    /\ EditSent /\ Succeeded(dnsCall.transport)
    /\ ~Truthy(dnsCall.record_id) /\ dnsCall.fields.content # None
    /\ Len(wire) = 2 /\ wire[2].path[2] = "retrieveByNameType"
    /\ dnsRet.kind = "return" /\ dnsRet.value.id = StrV("42")

\* the records a call returned
Produced ==
    IF dnsRet.kind # "return" THEN {}
    ELSE CASE dnsCall.op = "get_records" ->
                {dnsRet.value.records[i] : i \in 1..Len(dnsRet.value.records)}
           [] dnsCall.op \in {"create_record", "edit_record"} -> {dnsRet.value}
           [] OTHER -> {}

\* C18 (the claim as stated): every DnsRecord produced by get_records,
\* create_record or edit_record has a type in the supported set and a name
\* that neither equals the zone nor ends with '.' + zone
C18_AsStated ==
    \A rec \in Produced :
       /\ rec.type.s \in {"A", "AAAA", "MX", "CNAME", "ALIAS", "TXT", "NS", "SRV",
                            "TLSA", "CAA"}
       /\ rec.name.s # dnsCall.domain.s
       /\ ~EndsWith(rec.name.s, Dot \o dnsCall.domain.s)

\* C19 (the claim as stated): a record created with only the mandatory values
\* has ttl '600', prio '0' and notes ''; values given explicitly are kept
C19_AsStated ==
    (DnsDone("create_record") /\ dnsRet.kind = "return") =>
       /\ dnsRet.value.ttl = IF dnsCall.fields.ttl = None THEN StrV("600")
                              ELSE dnsCall.fields.ttl
       /\ dnsRet.value.prio = IF dnsCall.fields.prio = None THEN StrV("0")
                               ELSE dnsCall.fields.prio
       /\ dnsRet.value.notes = IF dnsCall.fields.notes = None THEN StrV("")
                                ELSE dnsCall.fields.notes

-----------------------------------------------------------------------------
(* The requests api_post sends (C13, C14, C15, C17)                        *)

\* the call sent a request
Sent == PostDone /\ wire # <<>>

CredentialFields == {"apikey", "secretapikey"}

\* C13 (the claim as stated): the request body ping sends contains neither
\* 'apikey' nor 'secretapikey'
C13_AsStated ==
    (Sent /\ postCall.op = "ping") => DOMAIN wire[1].json \cap CredentialFields = {}

\* C13 (amended): ping is an authenticated call: the request it sends to
\* '/ping' has as its body exactly the client's api_key under 'apikey' and
\* its api_secret_key under 'secretapikey'
C13_PingAuthenticated ==
    (Sent /\ postCall.op = "ping") =>
       /\ wire[1].path = "/ping"
       /\ DOMAIN wire[1].json = CredentialFields
       /\ wire[1].json["apikey"] = buildRet.config["api_key"]
       /\ wire[1].json["secretapikey"] = buildRet.config["api_secret_key"]

\* a ping was answered with success
C13_Witness ==
    /\ Sent /\ postCall.op = "ping" /\ postCall.force_v4
    /\ postRet.kind = "return"
    /\ wire[1].json["apikey"] = StrV("pk1_KEY")

\* C14: the body api_post sends is the payload with the client's api_key under
\* 'apikey' and api_secret_key under 'secretapikey' when the call is
\* authenticated, and the payload as it was given when it is not; Pricing.get
\* calls with authentication off and its body carries no credential field
C14_CredentialsIffAuth ==
    Sent =>
       /\ postCall.auth =>
            /\ DOMAIN wire[1].json = DOMAIN postCall.before \cup CredentialFields
            /\ wire[1].json["apikey"] = buildRet.config["api_key"]
            /\ wire[1].json["secretapikey"] = buildRet.config["api_secret_key"]
            /\ \A k \in DOMAIN postCall.before \ CredentialFields :
                  wire[1].json[k] = postCall.before[k]
       /\ ~postCall.auth => wire[1].json = postCall.before
       /\ postCall.op = "Pricing.get" =>
            /\ ~postCall.auth
            /\ DOMAIN wire[1].json \cap CredentialFields = {}

\* Pricing.get was answered with a price list
C14_Witness ==
    /\ Sent /\ postCall.op = "Pricing.get"
    /\ postRet.kind = "return" /\ postRet.value.ty = "PricingResponse"
    /\ wire[1].json = EmptyDict

\* C15: api_post sends to the IPv4-only endpoint if the client's force_v4 flag
\* or the per-call force_v4 argument is set, and to the dual-stack endpoint
\* only when both are unset
C15_ForceV4Either ==
    Sent =>
       wire[1].base_url =
          IF Truthy(buildRet.config["force_v4"]) \/ postCall.force_v4
          THEN "https://api-ipv4.porkbun.com/api/json/v3"
          ELSE "https://api.porkbun.com/api/json/v3"

\* a force_v4 client made a call with the per-call argument false
C15_Witness ==
    /\ Sent /\ postCall.op = "api_post"
    /\ Truthy(buildRet.config["force_v4"]) /\ ~postCall.force_v4
    /\ wire[1].base_url = "https://api-ipv4.porkbun.com/api/json/v3"

\* C17: one api_post call sends exactly one request: once a response is
\* received the request is never sent again, and a response with a status that
\* is not 200 ends the call with an error, whatever the retry count
C17_OneRequestPerCall ==
    /\ PostDone => Len(wire) <= 1
    /\ GotResponse =>
          /\ Len(wire) = 1
          /\ postCall.transport.status_code # 200 => IsRaise(postRet)

\* a call with a per-call retry count of 2 was answered with HTTP 500
C17_Witness ==
    /\ GotResponse /\ postCall.op = "api_post"
    /\ postCall.retries = IntV("2")
    /\ postCall.transport.status_code = 500
    /\ Len(wire) = 1 /\ wire[1].retries = IntV("2")
    /\ IsRaise(postRet) /\ postRet.type = "ApiError"

-----------------------------------------------------------------------------
(* The credentials of a client (C20)                                       *)

\* C20 (the claim as stated): every client that exists, made by the constructor
\* or by build, has a non-empty api_key and a non-empty api_secret_key
C20_AsStated ==
    (buildCall # NoCall /\ buildRet.kind = "client") =>
       /\ Truthy(buildRet.config["api_key"])
       /\ Truthy(buildRet.config["api_secret_key"])

-----------------------------------------------------------------------------
(* The caller's payload after a successful call (C26)                      *)

\* C26: after api_post returns a result, a payload object that held neither
\* 'apikey' nor 'secretapikey' before the call holds exactly the keys and
\* values it held before
C26_PayloadRestored ==
    (/\ PostDone /\ postCall.op = "api_post" /\ postCall.payload # None
     /\ postRet.kind = "return"
     /\ DOMAIN postCall.before \cap CredentialFields = {})
    => heap[postCall.payload.s] = postCall.before

\* an authenticated call with the fields of a record returned a result
C26_Witness ==
    /\ PostDone /\ postCall.op = "api_post" /\ postCall.payload # None
    /\ postCall.auth /\ postRet.kind = "return"
    /\ DOMAIN postCall.before = {"type", "content", "name"}
    /\ DOMAIN wire[1].json = {"type", "content", "name", "apikey", "secretapikey"}
    /\ heap[postCall.payload.s] = postCall.before

-----------------------------------------------------------------------------
(* Upstream errors and unsuccessful answers in the feature operations      *)
(* (C21, C27)                                                              *)

\* the call of a feature operation and how it ended
FeatureCall == IF dnsCall # NoCall THEN dnsCall ELSE postCall
FeatureRet == IF dnsCall # NoCall THEN dnsRet ELSE postRet
FeatureDone == FeatureCall # NoCall

\* the ApiFailure or ApiError the executor raises on the answer t: a body that
\* is no JSON, or a status other than 200 with the documented error body
UpstreamError(t) ==
    IF t.kind # "response" THEN NoRet
    ELSE IF t.content.ty = "text" THEN ApiFailure(t.status_code, t.content)
    ELSE IF /\ t.status_code # 200 /\ t.content.ty = "dict"
            /\ DOMAIN t.content.items = {"status", "message"}
    THEN ApiError(t.status_code, t.content.items["status"],
                  t.content.items["message"])
    ELSE NoRet

\* the answer to the retrieval that edit_record sends after the edit
SecondAnswer ==
    IF FeatureCall.op = "edit_record" /\ Len(wire) = 2
    THEN FeatureCall.transport2 ELSE FeatureCall.transport

\* the answer to the last request the call sent
LastAnswer == IF Len(wire) = 2 THEN SecondAnswer ELSE FeatureCall.transport

\* C21: an ApiError or ApiFailure raised by the executor during a Dns, Ssl,
\* Pricing or ping operation ends the operation as that same error, unchanged,
\* and no operation ends in an ApiError or ApiFailure of its own making
C21_ErrorsPropagate ==
    (FeatureDone /\ wire # <<>>)
    => /\ UpstreamError(LastAnswer) # NoRet => FeatureRet = UpstreamError(LastAnswer)
       /\ (IsRaise(FeatureRet) /\ FeatureRet.type \in {"ApiError", "ApiFailure"})
          => FeatureRet = UpstreamError(LastAnswer)

\* Ssl.get on a domain whose certificate is not ready ended in the ApiError
C21_Witness ==
    /\ FeatureDone /\ FeatureCall.op = "Ssl.get"
    /\ FeatureCall.transport = CertificateNotReady
    /\ FeatureRet = ApiError(400, StrV("ERROR"),
                             StrV("The SSL certificate is not ready for this domain."))

\* an answer that is HTTP 200 and a JSON object whose status is missing or is
\* not SUCCESS
Unsuccessful(t) ==
    /\ t.kind = "response" /\ t.status_code = 200
    /\ t.content.ty = "dict"
    /\ DictGet(t.content.items, "status") # StrV("SUCCESS")

\* the operations that test the status of the response
StatusChecked ==
    {"get_records", "create_record", "delete_record", "edit_record", "Ssl.get",
     "Pricing.get"}

\* C27: a Dns operation, Ssl.get or Pricing.get that receives an HTTP 200 JSON
\* response whose status is missing or not SUCCESS raises an error and returns
\* no result; edit_record then sends no retrieval, and raises as well when the
\* answer to its retrieval is such a response
C27_UnsuccessfulRaises ==
    (FeatureDone /\ FeatureCall.op \in StatusChecked /\ wire # <<>>)
    => /\ Unsuccessful(FeatureCall.transport)
          => /\ IsRaise(FeatureRet) /\ FeatureRet.type = "RuntimeError"
             /\ Len(wire) = 1
       /\ (Len(wire) = 2 /\ Unsuccessful(SecondAnswer))
          => IsRaise(FeatureRet) /\ FeatureRet.type = "RuntimeError"

\* an edit whose answer carried no status raised and sent no retrieval
C27_Witness ==
    /\ FeatureDone /\ FeatureCall.op = "edit_record"
    /\ Unsuccessful(FeatureCall.transport)
    /\ "status" \notin DOMAIN FeatureCall.transport.content.items
    /\ Len(wire) = 1 /\ wire[1].path[2] = "edit"
    /\ IsRaise(FeatureRet)

-----------------------------------------------------------------------------
(* Concurrent api_post calls (C23)                                         *)

\* the fields of a payload that are not the credentials
OwnFields(d) == [k \in DOMAIN d \ CredentialFields |-> d[k]]

\* C23 as stated: under every interleaving of the api_post calls of two
\* threads, each authenticated request that is sent carries both credential
\* fields and exactly the payload fields of its own call, and the client is
\* unchanged, also when the two calls are given one payload object
C23_AsStated ==
    /\ buildRet \in PostClients
    /\ \A i \in 1..Len(wire) :
         LET c == calls[wire[i].thread]
             json == wire[i].request.json
         IN /\ c.auth => /\ CredentialFields \subseteq DOMAIN json
                        /\ \A k \in CredentialFields :
                              json[k] = Credentials(buildRet)[k]
            /\ OwnFields(json) = OwnFields(c.before)

-----------------------------------------------------------------------------
(* Create, then retrieve by type and name (C22)                            *)

\* the records of a zone with the type A and the name www
SuchRecords(store) ==
    {i \in 1..Len(store) :
        /\ store[i]["type"] = StrV("A")
        /\ store[i]["name"] = NameV(www \o Dot \o example_com)}

\* an A record www was created in a zone that had none, and get_records was
\* then called with the type A and the name www
CreatedThenRetrieved ==
    /\ dnsCall.op = "get_records"
    /\ dnsCall.record_type = StrV("A") /\ dnsCall.name = NameV(www)
    /\ dnsCall.prev.call.op = "create_record"
    /\ dnsCall.prev.call.record_type = StrV("A")
    /\ dnsCall.prev.call.name = NameV(www)
    /\ dnsCall.prev.ret.kind = "return"
    /\ SuchRecords(dnsCall.prev.call.before) = {}

\* C22: against an upstream that stores what it is sent, creating an A record
\* www in a zone without one and then calling get_records with the type A and
\* the name www returns exactly one record, with the name www and the content
\* that was created
C22_CreateThenGet ==
    CreatedThenRetrieved
    => /\ dnsRet.kind = "return"
       /\ Len(dnsRet.value.records) = 1
       /\ dnsRet.value.records[1].name = NameV(www)
       /\ dnsRet.value.records[1].type = StrV("A")
       /\ dnsRet.value.records[1].content = dnsCall.prev.call.content

\* the record 198.51.100.45 was created beside an A record of the apex, and
\* retrieved
C22_Witness ==
    /\ CreatedThenRetrieved
    /\ dnsCall.prev.call.content = StrV("198.51.100.45")
    /\ Len(dnsCall.prev.call.before) = 1
    /\ dnsRet.kind = "return"
    /\ Len(dnsRet.value.records) = 1
    /\ dnsRet.value.records[1].content = StrV("198.51.100.45")

-----------------------------------------------------------------------------
(* The bulk modes of the command line (C24, C25, C28, C29, C30)            *)

BulkDone(mode) == dnsCall.op = "run_dns_bulk" /\ dnsCall.mode = mode

\* the requests of the run of one kind: create, delete, edit
Requests(kind) == {i \in 1..Len(wire) : wire[i].path[2] = kind}

\* the records of the zone as the run retrieves them
ExistingBefore ==
    [i \in 1..Len(dnsCall.before) |-> ToDnsRecord(dnsCall.before[i], DnsDomain)]

\* the record has no id, or an empty one
NoId(record) == "id" \notin DOMAIN record \/ record["id"] \in {None, StrV("")}

\* an existing record has the id of the record and differs from it
MatchesAndDiffers(record) ==
    \E j \in 1..Len(ExistingBefore) :
       /\ ExistingBefore[j]["id"] = record["id"]
       /\ ExistingBefore[j] # record

\* the edit requests are for input records that match an existing record and
\* differ from it
EditsOnlyChanged ==
    \A i \in Requests("edit") :
       \E k \in 1..Len(dnsCall.file) :
          /\ ~NoId(dnsCall.file[k])
          /\ dnsCall.file[k]["id"].s = wire[i].path[4]
          /\ MatchesAndDiffers(dnsCall.file[k])

\* the existing records whose id the input file does not name are as before
OthersUnchanged ==
    \A j \in 1..Len(dnsCall.before) :
       (\A k \in 1..Len(dnsCall.file) :
           NoId(dnsCall.file[k]) \/ dnsCall.file[k]["id"] # dnsCall.before[j]["id"])
       => \E x \in 1..Len(upstream) : upstream[x] = dnsCall.before[j]

\* the number of entries under CREATED in the result
CreatedEntries ==
    Len(dnsRet.value.CREATED.SUCCESS) + Len(dnsRet.value.CREATED.FAILURE)

\* C24 as stated: merge issues no delete request, edits only input records
\* that match an existing record and differ from it, leaves the other existing
\* records unchanged, and creates every input record with no id or an empty id
C24_AsStated ==
    (BulkDone("merge") /\ dnsRet.kind = "return")
    => /\ Requests("delete") = {}
       /\ EditsOnlyChanged
       /\ OthersUnchanged
       /\ CreatedEntries = Cardinality({k \in 1..Len(dnsCall.file) :
                                          NoId(dnsCall.file[k])})

\* the input records the run works on: those of type NS only with -incns
Considered ==
    SelectSeq(dnsCall.file,
              LAMBDA r : dnsCall.include_ns \/ r["type"] # StrV("NS"))

\* the records of a list that have no id or an empty one
WithoutId(list) == SelectSeq(list, NoId)

\* C24: once the existing records are retrieved, merge issues no delete
\* request, edits only input records that match an existing record and differ
\* from it, leaves the other existing records unchanged, and hands to
\* create_records exactly the input records with no id or an empty id, records
\* of type NS being dropped from the input unless -incns is given
C24_MergeFrame ==
    (BulkDone("merge") /\ dnsCall.reached)
    => /\ Requests("delete") = {}
       /\ EditsOnlyChanged
       /\ OthersUnchanged
       /\ dnsCall.plan.to_create = WithoutId(Considered)
       /\ Cardinality(Requests("create")) <= Len(dnsCall.plan.to_create)
       /\ dnsRet.kind = "return"
          => CreatedEntries = Len(WithoutId(Considered))

\* a merge that created one record, edited another and left the NS record of
\* the zone alone
C24_Witness ==
    /\ BulkDone("merge") /\ dnsRet.kind = "return"
    /\ Len(dnsCall.before) = 2 /\ Len(upstream) = 3
    /\ Cardinality(Requests("create")) = 1
    /\ Cardinality(Requests("edit")) = 1
    /\ upstream[2] = dnsCall.before[2]
    /\ upstream[1] # dnsCall.before[1]

\* every delete request of the run precedes every create request
DeletesPrecedeCreates ==
    \A i \in Requests("delete"), j \in Requests("create") : i < j

FlushTargets ==
    LET kept == SelectSeq(dnsCall.before,
                          LAMBDA r : dnsCall.include_ns \/ r["type"] # StrV("NS"))
    IN [i \in 1..Len(kept) |-> kept[i]["id"].s]

\* the ids of the delete requests, in the order they were sent
DeletedIds ==
    LET at == SelectSeq([i \in 1..Len(wire) |-> i],
                        LAMBDA i : wire[i].path[2] = "delete")
    IN [k \in 1..Len(at) |-> wire[at[k]].path[4]]

HelperDone == dnsCall.op \in {"create_records", "delete_records", "edit_records"}

\* C28 as stated: a helper returns for every input list, whatever fails for a
\* single record, and on return every input record is in exactly one of the
\* lists SUCCESS and FAILURE, each list in the order of the input
C28_AsStated ==
    HelperDone
    => /\ dnsRet.kind = "return"
       /\ LET ok == dnsRet.value.SUCCESS
              failed == dnsRet.value.FAILURE
          IN /\ \A k \in 1..Len(dnsCall.records) :
                   Cardinality({i \in 1..Len(ok) : ok[i].index = k})
                     + Cardinality({i \in 1..Len(failed) : failed[i].index = k}) = 1
             /\ \A i, j \in 1..Len(ok) : i < j => ok[i].index < ok[j].index
             /\ \A i, j \in 1..Len(failed) : i < j => failed[i].index < failed[j].index

\* the ids of the NS records the zone held when the run started
NSIds ==
    {dnsCall.before[j]["id"].s :
        j \in {x \in 1..Len(dnsCall.before) :
                 dnsCall.before[x]["type"] = StrV("NS")}}

\* the request creates, deletes or edits a record of type NS
ConcernsNS(req) ==
    \/ /\ req.path[2] \in {"create", "edit"}
       /\ "type" \in DOMAIN req.json /\ req.json["type"] = StrV("NS")
    \/ /\ req.path[2] \in {"delete", "edit"}
       /\ req.path[4] \in NSIds

\* C29: without -incns no bulk mode issues a delete, create or edit request
\* for a record of type NS, neither for one of the zone nor for one of the
\* input file
C29_NoRequestForNS ==
    (dnsCall.op = "run_dns_bulk" /\ ~dnsCall.include_ns)
    => \A i \in 1..Len(wire) : ~ConcernsNS(wire[i])

\* a flush without -incns of a zone with an NS record, from a file with an NS
\* record: the other record of the zone was deleted, the other record of the
\* file created
C29_Witness ==
    /\ BulkDone("flush") /\ ~dnsCall.include_ns /\ dnsRet.kind = "return"
    /\ NSIds # {}
    /\ \E k \in 1..Len(dnsCall.file) : dnsCall.file[k]["type"] = StrV("NS")
    /\ Cardinality(Requests("delete")) = 1
    /\ Cardinality(Requests("create")) = 1
    /\ \E x \in 1..Len(upstream) : upstream[x]["type"] = StrV("NS")

\* the record is in exactly one of the three lists of the merge
InOneList(record) ==
    LET c == InList(record, dnsCall.plan.to_create)
        e == InList(record, dnsCall.plan.to_edit)
        g == InList(record, dnsCall.plan.ignored)
    IN (c /\ ~e /\ ~g) \/ (~c /\ e /\ ~g) \/ (~c /\ ~e /\ g)

\* the record has an id, not empty, that no existing record has
Unmatched(record) ==
    /\ ~NoId(record)
    /\ \A j \in 1..Len(dnsCall.before) : dnsCall.before[j]["id"] # record["id"]

\* the run sent no request that names the id of the record
NoRequestFor(record) ==
    \A i \in 1..Len(wire) : Len(wire[i].path) < 4 \/ wire[i].path[4] # record["id"].s

\* C30 as stated: in merge mode every record of the input file is in exactly
\* one of the lists CREATE, EDIT and IGNORE, and a record with an id, not
\* empty, that no existing record has is ignored and causes no request
C30_AsStated ==
    (BulkDone("merge") /\ dnsCall.reached)
    => \A k \in 1..Len(dnsCall.file) :
          /\ InOneList(dnsCall.file[k])
          /\ Unmatched(dnsCall.file[k])
             => /\ InList(dnsCall.file[k], dnsCall.plan.ignored)
                /\ NoRequestFor(dnsCall.file[k])

\* C30: in merge mode, once the existing records are retrieved, every record
\* of the input file other than those of type NS (every record with -incns) is
\* in exactly one of the lists CREATE, EDIT and IGNORE, create requests go to
\* the CREATE list alone and edit requests to the EDIT list alone, and such a
\* record with an id, not empty, that no existing record has is ignored and
\* causes no request
C30_OneListEach ==
    (BulkDone("merge") /\ dnsCall.reached)
    => /\ \A k \in 1..Len(Considered) :
            /\ InOneList(Considered[k])
            /\ Unmatched(Considered[k])
               => /\ InList(Considered[k], dnsCall.plan.ignored)
                  /\ NoRequestFor(Considered[k])
       /\ \A i \in Requests("edit") :
            \E k \in 1..Len(dnsCall.plan.to_edit) :
               dnsCall.plan.to_edit[k]["id"].s = wire[i].path[4]
       /\ \A i \in Requests("create") :
            \E k \in 1..Len(dnsCall.plan.to_create) :
               /\ dnsCall.plan.to_create[k]["type"] = wire[i].json["type"]
               /\ dnsCall.plan.to_create[k]["content"] = wire[i].json["content"]
       /\ dnsRet.kind = "return" => dnsRet.value.IGNORED = dnsCall.plan.ignored

\* a merge of a record with an unknown id and of the existing record with a
\* new content: the first was ignored, the second edited
C30_Witness ==
    /\ BulkDone("merge") /\ dnsRet.kind = "return"
    /\ Len(dnsCall.file) = 2
    /\ Unmatched(dnsCall.file[1])
    /\ dnsCall.plan.ignored = <<dnsCall.file[1]>>
    /\ dnsCall.plan.to_edit = <<dnsCall.file[2]>>
    /\ Cardinality(Requests("edit")) = 1
    /\ Len(dnsRet.value.EDITED.SUCCESS) = 1

====
